---- MODULE Spec2Model ----
(***************************************************************************)
(* Canvas scraper: the extraction loop (src/canvas-scraper.js), the two    *)
(* reconciliation engines (src/todoist-export.js, src/notion-export.js)    *)
(* and the orchestrator (main.js) as one state machine.                    *)
(*                                                                         *)
(* Strings are sequences of atoms (a character or a fixed word), so that   *)
(* equality, substring search and replacement are computed, not assumed.   *)
(***************************************************************************)
EXTENDS Integers, Sequences, FiniteSets, TLC

VARIABLES
    pc,               \* position of the single flow of control
    \* ---- scrapeCanvas / scrapeCanvasItems (src/canvas-scraper.js)
    browser,          \* "undefined" | "open" | "closed" | "close_failed"
    page,             \* "undefined" | "open" | "closed": the planner page
    item_links,       \* the links discovery returned (what each leads to)
    i,                \* loop index of the extraction loop (0-based)
    visited,          \* the link numbers whose iteration has started, in order
    fatal,            \* the stage of scrapeCanvas that failed fatally, or "none"
    assignments,      \* the list scrapeCanvasItems builds, then main's list
    scrapingStats,    \* operationStats.scrapingStats of scrapeCanvas
    assignment_page,  \* "undefined" | "open" | "closed": this iteration's page
    closeCalls,       \* close() invocations on this iteration's page
    openPages,        \* iterations whose page is open in the browser context
    emitted,          \* log events written by the last step
    \* ---- main.js
    exportTo,         \* config.exportTo: [todoist, notion]
    config,           \* which credentials are configured
    apiStats,         \* operationStats.apiStats
    outputJson,       \* output.json on disk
    outputWritten,    \* output.json written by this invocation
    \* ---- exportToTodoist (src/todoist-export.js)
    tdRemote,         \* the task-list service: its tasks
    current_items,    \* snapshot of the tasks fetched up front
    current_projects, \* snapshot of the projects fetched up front
    tdIdx,            \* items of the list already handled by the loop
    tdLast,           \* what the last loop iteration did
    run,              \* engine runs started against the same service
    \* ---- exportToNotion (src/notion-export.js)
    ntRemote,         \* the database service: its pages
    future_tasks,     \* snapshot of the pages queried up front
    ntIdx,            \* items of the list already handled by the loop
    ntLast,           \* what the last loop iteration did
    ntRun,            \* runs of exportToNotion started
    cleanArg,         \* the string handed to cleanName
    cleanRet,         \* what cleanName returned
    customPath,       \* the argument of checkConfigExists
    home,             \* process.env.HOME || process.env.USERPROFILE
    existing,         \* the paths fs.existsSync answers true for
    configStatus      \* what checkConfigExists returned or raised

scrapeVars == <<browser, page, item_links, i, visited, fatal, scrapingStats,
               assignment_page, closeCalls, openPages>>
mainVars   == <<exportTo, config, outputJson, outputWritten>>
tdVars     == <<tdRemote, current_items, current_projects, tdIdx, tdLast, run>>
ntVars     == <<ntRemote, future_tasks, ntIdx, ntLast, ntRun>>
cfgVars    == <<customPath, home, existing, configStatus>>
fnVars     == <<cleanArg, cleanRet, cfgVars>>
vars == <<pc, assignments, emitted, apiStats, scrapeVars, mainVars, tdVars, ntVars, fnVars>>

----------------------------------------------------------------------------
(* Bounds of the model *)

MaxLinks == 3

MaxItems == 2

----------------------------------------------------------------------------
(* Strings *)

\* JavaScript null / undefined for a string-valued field.
NULL == <<"\\null">>

S(w) == <<w>>

Truthy(s) == s # NULL /\ s # <<>>

WS == {" ", "\n"}

\* sub occurs in s at position k (1-based)
OccursAt(s, sub, k) ==
    /\ k >= 1
    /\ k + Len(sub) - 1 <= Len(s)
    /\ \A j \in 1..Len(sub) : s[k + j - 1] = sub[j]

\* String.prototype.includes
Includes(s, sub) == \E k \in 1..(Len(s) + 1) : OccursAt(s, sub, k)

\* String.prototype.replace with a string pattern: the first occurrence only
ReplaceFirst(s, pat, rep) ==
    IF ~Includes(s, pat) THEN s
    ELSE LET k == CHOOSE k \in 1..(Len(s) + 1) :
                     /\ OccursAt(s, pat, k)
                     /\ \A m \in 1..(k - 1) : ~OccursAt(s, pat, m)
         IN SubSeq(s, 1, k - 1) \o rep \o SubSeq(s, k + Len(pat), Len(s))

RECURSIVE TrimStart(_)
TrimStart(s) == IF s # <<>> /\ Head(s) \in WS THEN TrimStart(Tail(s)) ELSE s

RECURSIVE TrimEnd(_)
TrimEnd(s) ==
    IF s # <<>> /\ s[Len(s)] \in WS THEN TrimEnd(SubSeq(s, 1, Len(s) - 1)) ELSE s

\* String.prototype.trim
Trim(s) == TrimEnd(TrimStart(s))

----------------------------------------------------------------------------
(* The portal: the pages the planner links lead to *)

BaseUrl == <<"https://canvas">>

ClsAtls == <<"A","T","L","S"," ","5","4","2","0","-","0","0","1">>
ClsCs   == <<"C","S"," ","2","2","7","0"," ","S","e","c","t","i","o","n"," ","0","0","3">>

\* A rendered item page: which marker elements content.$ finds ("yes", "no",
\* or "throw" when the probe itself raises), the first breadcrumb, and the
\* text of each field element (NULL: the element is absent).
Pg(a, q, d, c, t, du, de, cl, h) ==
    [asg |-> a, quiz |-> q, disc |-> d, crumb |-> c, title |-> t, due |-> du,
     desc |-> de, cls |-> cl, href |-> h]

PgHW    == Pg("yes", "no", "no", S("Home"), S("HW1"),
              <<"Due: ", "Mon", " by ", "4pm">>, S("read ch1"), ClsAtls, <<"/a/", "1">>)
PgBoth  == Pg("yes", "yes", "no", S("Home"), NULL, NULL, NULL, NULL, <<"/a/", "1", "2">>)
PgQuiz  == Pg("no", "yes", "no", S("Home"), S("Quiz1"),
              <<"Due: ", "Sep 23", " by ", "11pm", " by ", "x">>, S("ignored"), ClsCs, <<"/q/", "1">>)
PgNews  == Pg("no", "no", "yes", S("Announcements"), S("HW1"),
              S("Sep 1"), S("hello"), ClsCs, <<"/d/", "1">>)
PgDisc  == Pg("no", "no", "yes", S("Discussions"), S("Talk"),
              S("Sep 2"), S("chat"), ClsCs, <<"/d/", "2">>)
PgNone  == Pg("no", "no", "no", NULL, NULL, NULL, NULL, NULL, <<"/x/", "1">>)
PgThrow == Pg("throw", "throw", "throw", S("Announcements"), S("HW1"),
              NULL, NULL, ClsAtls, <<"/x/", "2">>)

Pages == {PgHW, PgBoth, PgQuiz, PgNews, PgDisc, PgNone, PgThrow}

\* an assignment due in the night in which daylight time ends
PgLate  == Pg("yes", "no", "no", S("Home"), S("HW9"),
              <<"Due: ", "Nov 2 2am">>, S("last one"), ClsAtls, <<"/a/", "9">>)

\* verify_is_assignment / verify_is_quiz: the marker element exists; a probe
\* that raises is caught and answers false
verify_is_assignment(pg) == pg.asg = "yes"

verify_is_quiz(pg) == pg.quiz = "yes"

\* a variant that takes the reply marker alone for a discussion
ReplyMarkerOnly(pg) == pg.disc = "yes"

\* verify_is_discussion: reply marker, first breadcrumb present and its text
\* exactly "Announcements"
verify_is_discussion(pg) ==
    /\ pg.disc = "yes"
    /\ pg.crumb # NULL
    /\ pg.crumb = S("Announcements")

\* a variant of the chain that tests the quiz marker first
ClassifyQuizFirst(pg) ==
    IF verify_is_quiz(pg) THEN "quiz"
    ELSE IF verify_is_assignment(pg) THEN "assignment"
    ELSE IF verify_is_discussion(pg) THEN "discussion"
    ELSE "none"

\* the if / else-if chain of the extraction loop
Classify(pg) ==
    IF verify_is_assignment(pg) THEN "assignment"
    ELSE IF verify_is_quiz(pg) THEN "quiz"
    ELSE IF verify_is_discussion(pg) THEN "discussion"
    ELSE "none"

OrDefault(text, dflt) == IF text # NULL THEN text ELSE dflt

scrape_assignment_data(pg) ==
    LET title == OrDefault(pg.title, S("Untitled Assignment"))
        due   == IF pg.due # NULL
                 THEN Trim(ReplaceFirst(pg.due, S("Due: "), <<>>))
                 ELSE S("No due date")
    IN [title |-> title,
        due_date |-> ReplaceFirst(due, S(" by "), S(" ")),
        description |-> OrDefault(pg.desc, <<>>)]

\* a variant of the quiz extractor that reads the description element
QuizDataWithDescription(pg) ==
    [title |-> OrDefault(pg.title, S("Untitled Quiz")),
     due_date |-> ReplaceFirst(OrDefault(pg.due, S("No due date")), S(" by "), S(" ")),
     description |-> OrDefault(pg.desc, NULL)]

scrape_quiz_data(pg) ==
    [title |-> OrDefault(pg.title, S("Untitled Quiz")),
     due_date |-> ReplaceFirst(OrDefault(pg.due, S("No due date")), S(" by "), S(" ")),
     description |-> NULL]

scrape_discussion_data(pg) ==
    [title |-> OrDefault(pg.title, S("Untitled Discussion")),
     due_date |-> ReplaceFirst(OrDefault(pg.due, S("No publish date")), S(" by "), S(" ")),
     description |-> OrDefault(pg.desc, <<>>)]

ExtractorOf(kind, pg) ==
    CASE kind = "assignment" -> scrape_assignment_data(pg)
      [] kind = "quiz"       -> scrape_quiz_data(pg)
      [] OTHER               -> scrape_discussion_data(pg)

\* a variant that types the item by the quiz marker after extraction
ItemRetyped(pg) ==
    LET kind == Classify(pg)
        d    == ExtractorOf(kind, pg)
    IN [class_name |-> OrDefault(pg.cls, <<"U","n","k","n","o","w","n"," ","C","l","a","s","s">>),
        title |-> d.title, due_date |-> d.due_date, description |-> d.description,
        url |-> BaseUrl \o pg.href,
        type |-> IF verify_is_quiz(pg) THEN "quiz" ELSE kind]

\* data = { class_name, ...extractor(pg), url: assignment_pg.url(), type }
ItemOf(pg) ==
    LET kind == Classify(pg)
        d    == ExtractorOf(kind, pg)
    IN [class_name |-> OrDefault(pg.cls, <<"U","n","k","n","o","w","n"," ","C","l","a","s","s">>),
        title |-> d.title, due_date |-> d.due_date, description |-> d.description,
        url |-> BaseUrl \o pg.href, type |-> kind]

\* What a discovered link does when the loop handles it: the page it leads
\* to, the step that raises (if any), and whether close() on its page raises.
Faults == {"none", "newPage", "title", "nav", "wait", "content", "extract"}

Lk(p, f, c) == [page |-> p, fault |-> f, closeFails |-> c]

Links ==
    {Lk(p, "none", FALSE) : p \in Pages}
    \cup {Lk(p, "none", TRUE) : p \in {PgHW, PgNone}}
    \cup {Lk(PgHW, f, FALSE) : f \in {"title", "newPage", "nav", "wait", "content"}}
    \cup {Lk(PgHW, "nav", TRUE)}
    \cup {Lk(p, "extract", FALSE) : p \in {PgHW, PgQuiz, PgNews}}

SeqsUpTo(X, n) == UNION {[1..k -> X] : k \in 0..n}

\* the items the extraction loop can put in its list
Items == {ItemOf(p) : p \in {q \in Pages : Classify(q) # "none"}}

----------------------------------------------------------------------------
(* scrapeCanvas: launch, login, planner, discovery (src/canvas-scraper.js) *)

Ev(level, msg, idx) == [level |-> level, msg |-> msg, idx |-> idx]

ZeroScrapingStats ==
    [totalItems |-> 0, processedItems |-> 0, assignments |-> 0, quizzes |-> 0,
     discussions |-> 0, errors |-> 0, skipped |-> 0]

Bump(stats, field, n) == [stats EXCEPT ![field] = @ + n]

\* errors++ executed inside performCanvasLogin / navigateToPlanner /
\* scrapeCanvasItems on the way out of a fatal failure (the catch of
\* scrapeCanvas adds its own afterwards)
FatalErrors(stage) ==
    CASE stage = "goto"      -> 1    \* the catch of page.goto
      [] stage = "form"      -> 1    \* inner catch only logs; login catch counts
      [] stage = "fill"      -> 1    \* login catch
      [] stage = "dashboard" -> 2    \* dashboard catch, then login catch
      [] stage = "evaluate"  -> 1    \* planner catch
      [] stage = "click"     -> 2    \* click catch, then planner catch
      [] stage = "planner"   -> 2    \* marker catch, then planner catch
      [] stage = "discover"  -> 1    \* discovery catch
      [] OTHER               -> 0

\* a variant in which the catch around the login-control waits only logs
FormCatchSwallows(stage) == IF stage = "form" THEN "planner" ELSE "scrape_catch"

\* where control goes when a stage fails: every catch on the way re-throws,
\* up to the catch of scrapeCanvas
FatalNext(stage) == "scrape_catch"

Fatal(stage) ==
    /\ scrapingStats' = Bump(scrapingStats, "errors", FatalErrors(stage))
    /\ emitted' = <<Ev("error", stage, 0)>>
    /\ fatal' = stage
    /\ pc' = FatalNext(stage)

\* initializeBrowser, browser.newContext, context.newPage
Launch ==
    /\ pc = "scrape_start"
    /\ \E o \in {"ok", "launch", "newPage"} :
          /\ browser' = IF o = "launch" THEN "undefined" ELSE "open"
          /\ page' = IF o = "ok" THEN "open" ELSE "undefined"
          /\ IF o = "ok"
             THEN /\ pc' = "login"
                  /\ emitted' = <<Ev("info", "Browser initialized successfully", 0)>>
                  /\ UNCHANGED <<scrapingStats, fatal>>
             ELSE Fatal(o)
    /\ UNCHANGED <<item_links, i, visited, assignments, assignment_page,
                   closeCalls, openPages, apiStats, mainVars, tdVars, ntVars>>
    /\ UNCHANGED fnVars

performCanvasLogin ==
    /\ pc = "login"
    /\ \E o \in {"ok", "goto", "form", "fill", "dashboard"} :
          IF o = "ok"
          THEN /\ pc' = "planner"
               /\ emitted' = <<Ev("info", "Canvas login successful", 0)>>
               /\ UNCHANGED <<scrapingStats, fatal>>
          ELSE Fatal(o)
    /\ UNCHANGED <<browser, page, item_links, i, visited, assignments,
                   assignment_page, closeCalls, openPages, apiStats, mainVars, tdVars, ntVars>>
    /\ UNCHANGED fnVars

navigateToPlanner ==
    /\ pc = "planner"
    /\ \E o \in {"ok", "evaluate", "click", "planner"} :
          IF o = "ok"
          THEN /\ pc' = "discover"
               /\ emitted' = <<Ev("info", "Accessing Canvas planner view", 0)>>
               /\ UNCHANGED <<scrapingStats, fatal>>
          ELSE Fatal(o)
    /\ UNCHANGED <<browser, page, item_links, i, visited, assignments,
                   assignment_page, closeCalls, openPages, apiStats, mainVars, tdVars, ntVars>>
    /\ UNCHANGED fnVars

\* a variant that counts an empty planner as an error
EmptyPlannerCounted(n) == IF n = 0 THEN 1 ELSE 0

\* errors counted when discovery returns n links: an empty planner is only
\* warned about
DiscoveryErrors(n) == 0

\* page.$$(SELECTORS.planner.items); totalItems = item_links.length
DiscoverFrom(planners) ==
    /\ pc = "discover"
    /\ \/ /\ \E ls \in planners :
                /\ item_links' = ls
                /\ scrapingStats' = [scrapingStats EXCEPT
                                        !.totalItems = Len(ls),
                                        !.errors = @ + DiscoveryErrors(Len(ls))]
                /\ emitted' = <<Ev("info", "Discovered planner items", 0)>>
                                \o (IF Len(ls) = 0
                                    THEN <<Ev("warn", "No planner items found", 0)>>
                                    ELSE <<>>)
          /\ i' = 0
          /\ assignments' = <<>>
          /\ pc' = "loop"
          /\ UNCHANGED fatal
       \/ /\ Fatal("discover")
          /\ UNCHANGED <<item_links, i, assignments>>
    /\ UNCHANGED <<browser, page, visited, assignment_page, closeCalls, openPages,
                   apiStats, mainVars, tdVars, ntVars>>
    /\ UNCHANGED fnVars

----------------------------------------------------------------------------
(* scrapeCanvasItems: the per-item extraction loop *)

\* what the probes of the chain log: a probe that raises logs an error that
\* names the selector, not the item; a later probe runs only when the
\* earlier tests failed
ProbeLog(pg) ==
    (IF pg.asg = "throw" THEN <<Ev("error", "Assignment verification failed", 0)>> ELSE <<>>)
    \o (IF ~verify_is_assignment(pg) /\ pg.quiz = "throw"
        THEN <<Ev("error", "Quiz verification failed", 0)>> ELSE <<>>)
    \o (IF ~verify_is_assignment(pg) /\ ~verify_is_quiz(pg) /\ pg.disc = "throw"
        THEN <<Ev("error", "Discussion verification failed", 0)>> ELSE <<>>)

KindCounter(kind) ==
    CASE kind = "assignment" -> "assignments"
      [] kind = "quiz"       -> "quizzes"
      [] OTHER               -> "discussions"

\* The way one iteration's try block ends for link l, once its page is open:
\*   "nav"     getAttribute / goto raised: logged, page closed, continue
\*   "wait"    a wait of the "Wait for content to load" block raised
\*   "content" the content container was not found: logged, closed, continue
\*   "skip"    no content type matched: skipped++, closed, continue
\*   "extract" the extractor raised: logged, closed, continue
\*   "ok"      the item is pushed
BodyPath(l) ==
    CASE l.fault = "nav"     -> "nav"
      [] l.fault = "wait"    -> "wait"
      [] l.fault = "content" -> "content"
      [] OTHER -> IF Classify(l.page) = "none" THEN "skip"
                  ELSE IF l.fault = "extract" THEN "extract"
                  ELSE "ok"

\* the branches that call assignment_page.close() themselves before continue
ClosesInBranch(path) == path \in {"nav", "content", "skip", "extract"}

\* the exception reaches the catch of the iteration (errors++)
ReachesItemCatch(l) ==
    LET path == BodyPath(l)
    IN \/ path = "wait"
       \/ ClosesInBranch(path) /\ l.closeFails

\* the close() of the skip branch sits inside the try of the classification:
\* when it raises, catch (verificationError) logs and calls close() again
SkipCloseCaught(l) == BodyPath(l) = "skip" /\ l.closeFails

\* discovery on any planner of up to MaxLinks links
Discover == DiscoverFrom(SeqsUpTo(Links, MaxLinks))

\* a variant whose catch re-throws: the batch ends in the catch of scrapeCanvas
ItemCatchRethrows == "scrape_catch"

\* where control goes after the catch block of an iteration: nothing is
\* re-thrown, so the finally block runs and the loop goes on
ItemCatch == "item_finally"

\* context.newPage() for the next link
LoopNewPage ==
    /\ pc = "loop"
    /\ i < Len(item_links)
    /\ LET l == item_links[i + 1] IN
         IF l.fault = "newPage"
         THEN /\ assignment_page' = "undefined"
              /\ UNCHANGED openPages
              /\ scrapingStats' = Bump(scrapingStats, "errors", 1)
              /\ emitted' = <<Ev("error", "Assignment processing failed", i + 1)>>
              /\ pc' = ItemCatch
         ELSE /\ assignment_page' = "open"
              /\ openPages' = openPages \cup {i + 1}
              /\ UNCHANGED scrapingStats
              /\ emitted' = <<>>
              /\ pc' = "item_body"
    /\ closeCalls' = 0
    /\ visited' = Append(visited, i + 1)
    /\ UNCHANGED <<fatal, browser, page, item_links, i, assignments,
                   apiStats, mainVars, tdVars, ntVars>>
    /\ UNCHANGED fnVars

\* the try block of one iteration, with its inner catches and the outer catch
ItemBody ==
    /\ pc = "item_body"
    /\ LET l     == item_links[i + 1]
           idx   == i + 1
           path  == BodyPath(l)
           kind  == Classify(l.page)
           inCl  == ClosesInBranch(path)
           s1    == IF path \in {"extract", "ok"}
                    THEN Bump(scrapingStats, KindCounter(kind), 1)
                    ELSE IF path = "skip" THEN Bump(scrapingStats, "skipped", 1)
                    ELSE scrapingStats
           s2    == IF path = "ok" THEN Bump(s1, "processedItems", 1) ELSE s1
           s3    == IF ReachesItemCatch(l) THEN Bump(s2, "errors", 1) ELSE s2
       IN /\ scrapingStats' = s3
          /\ assignments' = IF path = "ok" THEN Append(assignments, ItemOf(l.page))
                            ELSE assignments
          /\ assignment_page' = IF inCl /\ ~l.closeFails THEN "closed" ELSE "open"
          /\ openPages' = IF inCl /\ ~l.closeFails THEN openPages \ {idx} ELSE openPages
          /\ closeCalls' = closeCalls + (IF ~inCl THEN 0
                                         ELSE IF SkipCloseCaught(l) THEN 2 ELSE 1)
          /\ emitted' =
               (IF l.fault = "title"
                THEN <<Ev("warn", "Failed to extract item title", idx)>> ELSE <<>>)
               \o <<Ev("info", "Starting planner item scrape", idx)>>
               \o (IF path = "nav"
                   THEN <<Ev("error", "Failed to navigate to assignment page", idx)>>
                   ELSE <<>>)
               \o (IF path \in {"content", "skip", "extract", "ok"} /\ l.page.cls = NULL
                   THEN <<Ev("warn", "Failed to extract class name, using fallback", idx)>>
                   ELSE <<>>)
               \o (IF path = "content"
                   THEN <<Ev("error", "Failed to find content container", idx)>>
                   ELSE <<>>)
               \o (IF path \in {"skip", "extract", "ok"} THEN ProbeLog(l.page) ELSE <<>>)
               \o (IF path = "extract" \/ SkipCloseCaught(l)
                   THEN <<Ev("error", "Content verification failed", idx)>>
                   ELSE <<>>)
               \o (IF ReachesItemCatch(l)
                   THEN <<Ev("error", "Assignment processing failed", idx)>>
                   ELSE <<>>)
          /\ pc' = IF ReachesItemCatch(l) THEN ItemCatch ELSE "item_finally"
    /\ UNCHANGED <<fatal, browser, page, item_links, i, visited,
                   apiStats, mainVars, tdVars, ntVars>>
    /\ UNCHANGED fnVars

\* a variant whose finally block leaves the closing to the branches of the try
FinallyLeavesClosing(ap) == FALSE

\* if (assignment_page) in the finally block of one iteration
FinallyCloses(ap) == ap # "undefined"

\* the finally block of one iteration, then i++
ItemFinally ==
    /\ pc = "item_finally"
    /\ LET l == item_links[i + 1] IN
         IF ~FinallyCloses(assignment_page)
         THEN /\ UNCHANGED <<assignment_page, closeCalls, openPages>>
              /\ emitted' = <<Ev("info", "Completed planner item scrape", i + 1)>>
         ELSE /\ closeCalls' = closeCalls + 1
              /\ assignment_page' = IF l.closeFails THEN assignment_page ELSE "closed"
              /\ openPages' = IF l.closeFails THEN openPages ELSE openPages \ {i + 1}
              /\ emitted' =
                   (IF l.closeFails
                    THEN <<Ev("warn", "Failed to close assignment page", i + 1)>>
                    ELSE <<>>)
                   \o <<Ev("info", "Completed planner item scrape", i + 1)>>
    /\ i' = i + 1
    /\ pc' = "loop"
    /\ UNCHANGED <<fatal, browser, page, item_links, visited, assignments,
                   scrapingStats, apiStats, mainVars, tdVars, ntVars>>
    /\ UNCHANGED fnVars

\* the loop ends: scrapeCanvasItems returns and scrapeCanvas logs the summary
LoopExit ==
    /\ pc = "loop"
    /\ i = Len(item_links)
    /\ emitted' = <<Ev("info", "Scraping completed", 0)>>
    /\ pc' = "scrape_finally_ok"
    /\ UNCHANGED <<assignments, apiStats, scrapeVars, mainVars, tdVars, ntVars>>
    /\ UNCHANGED fnVars

\* catch (error) of scrapeCanvas
ScrapeCatch ==
    /\ pc = "scrape_catch"
    /\ scrapingStats' = Bump(scrapingStats, "errors", 1)
    /\ emitted' = <<Ev("error", "Unhandled error in Canvas scraping - session terminated", 0)>>
    /\ pc' = "scrape_finally_err"
    /\ UNCHANGED <<fatal, browser, page, item_links, i, visited, assignments,
                   assignment_page, closeCalls, openPages, apiStats, mainVars, tdVars, ntVars>>
    /\ UNCHANGED fnVars

\* finally of scrapeCanvas: page.close(), browser.close(), the final summary;
\* a close that raises leaves the rest of the block unexecuted; closing the
\* browser closes every page of its context
ScrapeFinally ==
    /\ pc \in {"scrape_finally_ok", "scrape_finally_err"}
    /\ \E pageCloseOk \in (IF page = "undefined" THEN {TRUE} ELSE BOOLEAN),
          browserCloseOk \in (IF browser = "undefined" THEN {TRUE} ELSE BOOLEAN) :
          /\ page' = IF page # "undefined" /\ pageCloseOk THEN "closed" ELSE page
          /\ browser' = IF browser # "undefined" /\ pageCloseOk
                        THEN (IF browserCloseOk THEN "closed" ELSE "close_failed")
                        ELSE browser
          /\ emitted' = IF pageCloseOk /\ browserCloseOk
                        THEN <<Ev("info", "Canvas scraping session completed successfully", 0)>>
                        ELSE <<Ev("error", "Browser cleanup failed", 0)>>
    /\ openPages' = IF browser' = "closed" THEN {} ELSE openPages
    /\ pc' = IF pc = "scrape_finally_ok" THEN "scrape_returned" ELSE "scrape_raised"
    /\ UNCHANGED <<fatal, item_links, i, visited, assignments, scrapingStats,
                   assignment_page, closeCalls, apiStats, mainVars, tdVars, ntVars>>
    /\ UNCHANGED fnVars

NextScrape ==
    \/ Launch
    \/ performCanvasLogin
    \/ navigateToPlanner
    \/ Discover
    \/ LoopNewPage
    \/ ItemBody
    \/ ItemFinally
    \/ LoopExit
    \/ ScrapeCatch
    \/ ScrapeFinally

----------------------------------------------------------------------------
(* exportToTodoist and its helpers (src/todoist-export.js) *)

Upper == <<"A","B","C","D","E","F","G","H","I","J","K","L","M",
           "N","O","P","Q","R","S","T","U","V","W","X","Y","Z">>
LowerAZ == <<"a","b","c","d","e","f","g","h","i","j","k","l","m",
             "n","o","p","q","r","s","t","u","v","w","x","y","z">>
Digits == {"0","1","2","3","4","5","6","7","8","9"}

LowerChar(c) ==
    IF \E k \in 1..Len(Upper) : Upper[k] = c
    THEN LowerAZ[CHOOSE k \in 1..Len(Upper) : Upper[k] = c]
    ELSE c

\* String.prototype.toLowerCase
ToLowerCase(s) == [k \in 1..Len(s) |-> LowerChar(s[k])]

IsAlnumOrSpace(c) ==
    \/ \E k \in 1..Len(LowerAZ) : LowerAZ[k] = c
    \/ c \in Digits
    \/ c \in WS

\* .replace(/[^a-z0-9\s]/g, "")
RECURSIVE StripSpecial(_)
StripSpecial(s) ==
    IF s = <<>> THEN <<>>
    ELSE IF IsAlnumOrSpace(Head(s)) THEN <<Head(s)>> \o StripSpecial(Tail(s))
    ELSE StripSpecial(Tail(s))

\* .replace(/\s+/g, " ")
RECURSIVE CollapseSpaces(_)
CollapseSpaces(s) ==
    IF s = <<>> THEN <<>>
    ELSE IF Head(s) \in WS
         THEN <<" ">> \o CollapseSpaces(TrimStart(Tail(s)))
         ELSE <<Head(s)>> \o CollapseSpaces(Tail(s))

SectionWord == <<"s","e","c","t","i","o","n">>

\* /\s(-|section)\s.*$/ matches at k
SectionAt(s, k) ==
    /\ k <= Len(s)
    /\ s[k] \in WS
    /\ \/ OccursAt(s, <<"-">>, k + 1) /\ k + 2 <= Len(s) /\ s[k + 2] \in WS
       \/ /\ OccursAt(s, SectionWord, k + 1)
          /\ k + 1 + Len(SectionWord) <= Len(s)
          /\ s[k + 1 + Len(SectionWord)] \in WS

\* .replace(/\s(-|section)\s.*$/, "")
StripSection(s) ==
    IF \E k \in 1..Len(s) : SectionAt(s, k)
    THEN LET k == CHOOSE k \in 1..Len(s) :
                     SectionAt(s, k) /\ \A m \in 1..(k - 1) : ~SectionAt(s, m)
         IN SubSeq(s, 1, k - 1)
    ELSE s

MinTrailingDigits == 3

\* /\s\d{3,}$/ matches at k
TrailingNumberAt(s, k) ==
    /\ s[k] \in WS
    /\ Len(s) - k >= MinTrailingDigits
    /\ \A m \in (k + 1)..Len(s) : s[m] \in Digits

\* .replace(/\s\d{3,}$/, "")
StripTrailingNumber(s) ==
    IF \E k \in 1..Len(s) : TrailingNumberAt(s, k)
    THEN LET k == CHOOSE k \in 1..Len(s) :
                     TrailingNumberAt(s, k) /\ \A m \in 1..(k - 1) : ~TrailingNumberAt(s, m)
         IN SubSeq(s, 1, k - 1)
    ELSE s

\* a variant without the last replace, as the example of the doc comment has it
cleanNameKeepsNumber(string) ==
    StripSection(Trim(CollapseSpaces(StripSpecial(ToLowerCase(string)))))

cleanName(string) ==
    StripTrailingNumber(StripSection(Trim(CollapseSpaces(StripSpecial(ToLowerCase(string))))))

\* ---- the task-list service
Tk(id, c, d, done) == [id |-> id, content |-> c, description |-> d, isCompleted |-> done]

\* `${description}\n\n[Canvas Link](${url})`
WithCanvasLink(description, url) ==
    description \o <<"\n\n[Canvas Link](">> \o url \o <<")">>

TkHwDone  == Tk("t1", S("HW1"), NULL, TRUE)
TkHwOpen  == Tk("t2", S("HW1"), <<>>, FALSE)
TkUrlDone == Tk("t3", S("renamed"), WithCanvasLink(S("read ch1"), BaseUrl \o <<"/a/", "1">>), TRUE)
TkUrlOpen == Tk("t4", S("Quiz 1 (mine)"), WithCanvasLink(S("x"), BaseUrl \o <<"/q/", "1">>), FALSE)
TkOther   == Tk("t5", S("Groceries"), S("milk"), FALSE)

Tasks == {TkHwDone, TkHwOpen, TkUrlDone, TkUrlOpen, TkOther}

Pj(id, n) == [id |-> id, name |-> n]

PjHome == Pj("p1", <<"H","o","m","e">>)
PjAtls == Pj("p2", <<"A","T","L","S"," ","F","2","5">>)
PjCs   == Pj("p3", <<"c","s">>)

ProjectLists == {<<>>, <<PjHome>>, <<PjHome, PjAtls, PjCs>>}

MaxTasks == 2

Distinct(seq) == \A a, b \in 1..Len(seq) : a # b => seq[a] # seq[b]

TaskLists == {t \in SeqsUpTo(Tasks, MaxTasks) : Distinct(t)}

\* previous_item = false
NoTask == Tk("", NULL, NULL, FALSE)

\* a variant that matches on the title alone
TaskMatchesTitleOnly(task, given_item) == task.content = given_item.title

\* the predicate of items.find in checkIfAlreadyAdded
TaskMatches(task, given_item) ==
    \/ task.content = given_item.title
    \/ /\ Truthy(given_item.url)
       /\ Truthy(task.description)
       /\ Includes(task.description, given_item.url)

\* Array.prototype.find: the first element satisfying the predicate
checkIfAlreadyAdded(items, given_item) ==
    IF \E k \in 1..Len(items) : TaskMatches(items[k], given_item)
    THEN items[CHOOSE k \in 1..Len(items) :
                 /\ TaskMatches(items[k], given_item)
                 /\ \A m \in 1..(k - 1) : ~TaskMatches(items[m], given_item)]
    ELSE NoTask

\* false (the default project) is ""
findRelatedProject(projects, class_name) ==
    LET cleaned == cleanName(ToLowerCase(class_name))
        hit(k)  == Includes(ToLowerCase(projects[k].name), cleaned)
    IN IF \E k \in 1..Len(projects) : hit(k)
       THEN projects[CHOOSE k \in 1..Len(projects) :
                       hit(k) /\ \A m \in 1..(k - 1) : ~hit(m)].id
       ELSE ""

\* The identifiers bound where the loop body of exportToTodoist is evaluated:
\* the module's imports and functions, the function's parameters and locals,
\* and the globals it uses. An identifier outside this set raises a
\* ReferenceError when it is read (an ES module is strict code).
TodoistScope ==
    {"TodoistApi", "logger", "exportToTodoist", "checkIfAlreadyAdded",
     "findRelatedProject", "cleanName",
     "assignments", "config", "sessionId", "operationStats",
     "todoistExportStart", "todoistApi", "current_items", "current_projects",
     "item", "previous_item", "project_id", "cleanedDueDate", "data",
     "process", "Date", "Object", "Math"}

\* the identifiers read by `cleanName(class_name.toLowerCase())`
LabelLineReads == {"cleanName", "class_name"}

LabelLineThrows == ~(LabelLineReads \subseteq TodoistScope)

DuePrefixes == {"Due: ", "due: ", "DUE: ", "Due:", "due:", "DUE:"}

\* item.due_date?.string?.replace(/^Due:\s*/i, "")
CleanedDueDate(due) ==
    IF due # <<>> /\ Head(due) \in DuePrefixes THEN TrimStart(Tail(due)) ELSE due

Priority == 3

NoFields == [k \in {} |-> NULL]

Has(data, key) == key \in DOMAIN data

\* const data = { ...(item.title && {content}), ...(project_id && {projectId}), ... }
AddTaskData(item, project_id) ==
    (IF Truthy(item.title) THEN [content |-> item.title] ELSE NoFields)
    @@ (IF project_id # "" THEN [projectId |-> project_id] ELSE NoFields)
    @@ (IF Truthy(CleanedDueDate(item.due_date))
        THEN [dueString |-> CleanedDueDate(item.due_date)] ELSE NoFields)
    @@ (IF Truthy(item.description)
        THEN [description |-> WithCanvasLink(item.description, item.url),
              labels |-> <<cleanName(ToLowerCase(item.class_name)), S(item.type)>>]
        ELSE NoFields)
    @@ [priority |-> Priority]

\* const updateData = { ...(item.description && {description}) }
UpdateTaskData(item) ==
    IF Truthy(item.description)
    THEN [description |-> WithCanvasLink(item.description, item.url)]
    ELSE NoFields

NoCall == [op |-> "none"]

\* a variant that tests a field the task objects do not carry
CompletedFieldMisnamed(previous_item) == FALSE

\* if (previous_item && previous_item.isCompleted)
SkipsCompleted(previous_item) == previous_item # NoTask /\ previous_item.isCompleted

\* One iteration of `for (const item of assignments)`: the previous item
\* found, the branch taken and the remote call it makes (if any).
TodoistIteration(item, items, projects) ==
    LET previous_item == checkIfAlreadyAdded(items, item)
        project_id    == findRelatedProject(projects, item.class_name)
    IN IF SkipsCompleted(previous_item)
       THEN [prev |-> previous_item, branch |-> "skip_completed", call |-> NoCall]
       ELSE IF LabelLineThrows
       THEN [prev |-> previous_item, branch |-> "item_error", call |-> NoCall]
       ELSE IF previous_item = NoTask
       THEN [prev |-> previous_item, branch |-> "add",
             call |-> [op |-> "addTask", data |-> AddTaskData(item, project_id)]]
       ELSE IF DOMAIN UpdateTaskData(item) = {}
       THEN [prev |-> previous_item, branch |-> "update_skipped", call |-> NoCall]
       ELSE [prev |-> previous_item, branch |-> "update",
             call |-> [op |-> "updateTask", id |-> previous_item.id,
                       data |-> UpdateTaskData(item)]]

\* the task-list service after a call it accepted
TodoistApply(remote, call) ==
    IF call.op = "addTask"
    THEN Append(remote,
                Tk(ToString(Len(remote) + 1),
                   IF Has(call.data, "content") THEN call.data.content ELSE NULL,
                   IF Has(call.data, "description") THEN call.data.description ELSE NULL,
                   FALSE))
    ELSE IF call.op = "updateTask"
    THEN [k \in 1..Len(remote) |->
            IF remote[k].id = call.id
            THEN [remote[k] EXCEPT !.description = call.data.description]
            ELSE remote[k]]
    ELSE remote

ZeroApiStats ==
    [notion  |-> [creates |-> 0, updates |-> 0, errors |-> 0],
     todoist |-> [creates |-> 0, updates |-> 0, errors |-> 0]]

\* a variant that counts the call when it is issued, before its outcome is known
CountedBeforeOutcome(stats, service, call, ok) ==
    IF call.op = "none" THEN stats
    ELSE LET counter == IF call.op \in {"addTask", "pages.create"} THEN "creates" ELSE "updates"
             issued  == [stats EXCEPT ![service][counter] = @ + 1]
         IN IF ok THEN issued ELSE [issued EXCEPT ![service].errors = @ + 1]

\* creates++ / updates++ on success, errors++ in the catch of the call
Counted(stats, service, call, ok) ==
    IF call.op = "none" THEN stats
    ELSE IF ~ok THEN [stats EXCEPT ![service].errors = @ + 1]
    ELSE IF call.op \in {"addTask", "pages.create"}
    THEN [stats EXCEPT ![service].creates = @ + 1]
    ELSE [stats EXCEPT ![service].updates = @ + 1]

NoIteration == [idx |-> 0]

\* a variant that stays on the item whose call failed
RetriesFailedCall(idx, ok) == IF ok THEN idx + 1 ELSE idx

\* for (const item of assignments): the loop moves on to the next item
\* whatever the outcome of the call
AfterAttempt(idx, ok) == idx + 1

MaxRuns == 2

\* the configuration guard at the top of exportToTodoist
TodoistEntry ==
    /\ pc = "td_entry"
    /\ run' = run + 1
    /\ IF ~config.todoist_api_key
       THEN /\ pc' = "td_returned"
            /\ emitted' = <<Ev("info", "Todoist export skipped - no API key configured", 0)>>
       ELSE /\ pc' = "td_fetch"
            /\ emitted' = <<Ev("info", "Starting Todoist export with performance tracking", 0)>>
    /\ UNCHANGED <<assignments, apiStats, scrapeVars, mainVars,
                   tdRemote, current_items, current_projects, tdIdx, tdLast, ntVars>>
    /\ UNCHANGED fnVars

\* getTasks() and getProjects(): the up-front snapshot, or the failure that
\* is logged and re-thrown through the outer catch
TodoistFetch ==
    /\ pc = "td_fetch"
    /\ \/ /\ current_items' = tdRemote.tasks
          /\ current_projects' = tdRemote.projects
          /\ tdIdx' = 0
          /\ emitted' = <<Ev("info", "Todoist state retrieved", 0)>>
          /\ pc' = "td_loop"
       \/ /\ emitted' = <<Ev("error", "Failed to retrieve Todoist state", 0),
                          Ev("error", "Todoist export failed completely", 0)>>
          /\ pc' = "td_raised"
          /\ UNCHANGED <<current_items, current_projects, tdIdx>>
    /\ UNCHANGED <<assignments, apiStats, scrapeVars, mainVars, tdRemote, tdLast, run, ntVars>>
    /\ UNCHANGED fnVars

TodoistBranchLog(it, ok, idx) ==
    CASE it.branch = "skip_completed" -> <<Ev("info", "Skipping completed assignment", idx)>>
      [] it.branch = "item_error" ->
            <<Ev("error", "Failed to process assignment for Todoist export", idx)>>
      [] it.branch = "update_skipped" -> <<Ev("info", "Skipping update - no changes needed", idx)>>
      [] it.branch = "add" ->
            <<Ev("info", "Adding new item to Todoist", idx),
              IF ok THEN Ev("info", "Todoist item added successfully", idx)
              ELSE Ev("error", "Todoist API error during item addition", idx)>>
      [] OTHER ->
            <<Ev("info", "Updating existing Todoist item", idx),
              IF ok THEN Ev("info", "Todoist item updated successfully", idx)
              ELSE Ev("error", "Todoist API error during item update", idx)>>

\* where control goes after the try/catch around addTask / updateTask: the
\* catch counts and logs, nothing is re-thrown
TodoistAfterCall(ok) == "td_loop"

\* one iteration of the loop over assignments
TodoistItem ==
    /\ pc = "td_loop"
    /\ tdIdx < Len(assignments)
    /\ LET item == assignments[tdIdx + 1]
           it   == TodoistIteration(item, current_items, current_projects)
       IN \E ok \in (IF it.call.op = "none" THEN {TRUE} ELSE BOOLEAN) :
            /\ tdLast' = [idx |-> tdIdx + 1, item |-> item, prev |-> it.prev,
                          branch |-> it.branch, call |-> it.call, ok |-> ok,
                          before |-> apiStats]
            /\ apiStats' = Counted(apiStats, "todoist", it.call, ok)
            /\ tdRemote' = IF ok
                           THEN [tdRemote EXCEPT !.tasks = TodoistApply(@, it.call)]
                           ELSE tdRemote
            /\ emitted' = TodoistBranchLog(it, ok, tdIdx + 1)
            /\ pc' = TodoistAfterCall(ok)
    /\ tdIdx' = AfterAttempt(tdIdx, tdLast'.ok)
    /\ UNCHANGED <<assignments, scrapeVars, mainVars,
                   current_items, current_projects, run, ntVars>>
    /\ UNCHANGED fnVars

\* the loop is over: the summary is logged and the engine returns
TodoistDone ==
    /\ pc = "td_loop"
    /\ tdIdx = Len(assignments)
    /\ emitted' = <<Ev("info", "Todoist export completed", 0)>>
    /\ pc' = "td_returned"
    /\ UNCHANGED <<assignments, apiStats, scrapeVars, mainVars, tdVars, ntVars>>
    /\ UNCHANGED fnVars

\* the program is invoked again on the same list, against the same service
TodoistRerun ==
    /\ pc = "td_returned"
    /\ run < MaxRuns
    /\ pc' = "td_entry"
    /\ current_items' = <<>>
    /\ current_projects' = <<>>
    /\ tdIdx' = 0
    /\ tdLast' = NoIteration
    /\ emitted' = <<>>
    /\ apiStats' = ZeroApiStats
    /\ UNCHANGED <<assignments, scrapeVars, mainVars, tdRemote, run, ntVars>>
    /\ UNCHANGED fnVars

NextTodoist ==
    \/ TodoistEntry
    \/ TodoistFetch
    \/ TodoistItem
    \/ TodoistDone
    \/ TodoistRerun

----------------------------------------------------------------------------
(* exportToNotion and its helpers (src/notion-export.js) *)

\* chrono-node parseDate: the instant (in hours) of the first date phrase of
\* the text, or null when the text holds none
DatePhrases == {"Mon", "Sep 1", "Sep 23", "Nov 2 2am"}

\* the hour (counted in UTC) at which the host's zone leaves daylight time
DstEnd == 4000

InstantOf(phrase) ==
    CASE phrase = "Mon"       -> 1000
      [] phrase = "Sep 1"     -> 2000
      [] phrase = "Nov 2 2am" -> DstEnd + 1
      [] OTHER                -> 3000

NoDate == [ok |-> FALSE]

ParseDate(text) ==
    IF \E k \in 1..Len(text) : text[k] \in DatePhrases
    THEN [ok |-> TRUE,
          t |-> InstantOf(text[CHOOSE k \in 1..Len(text) :
                                 /\ text[k] \in DatePhrases
                                 /\ \A m \in 1..(k - 1) : text[m] \notin DatePhrases])]
    ELSE NoDate

\* the values new Date() can take during a run
Clock == {5000, 5001}

TzOffsetHours == 7

\* Date.prototype.toISOString
ToISOString(t) == <<"ISO", ToString(t)>>

\* The host's zone, Mountain Time as the engine's "MDT" has it: UTC-6 in
\* daylight time, UTC-7 from DstEnd on.
UtcOffset(t) == IF t < DstEnd THEN 0 - 6 ELSE 0 - 7

\* ECMAScript LocalTime(t) and UTC(wall); a wall-clock hour that occurs twice
\* is read with the offset in force before the transition
LocalTime(t) == t + UtcOffset(t)

UTC(wall) == IF wall + 6 < DstEnd THEN wall + 6 ELSE wall + 7

\* Date.prototype.setHours(getHours() - 7): the hour field of the local
\* wall-clock time is moved, and the result is read back as an instant
SetHoursBack(t) == UTC(LocalTime(t) - TzOffsetHours)

\* a variant that leaves the text alone when it cannot be parsed
DueDateKeptOnParseFailure(text, now) ==
    LET parsed == ParseDate(text)
    IN IF parsed.ok THEN ToISOString(SetHoursBack(parsed.t)) ELSE text

\* temp_date.setHours(temp_date.getHours() - 7); toISOString()
NotionDueDate(text, now) ==
    LET parsed == ParseDate(text)
        temp   == IF parsed.ok THEN parsed.t ELSE now
    IN ToISOString(SetHoursBack(temp))

Np(id, runs) == [id |-> id, title |-> runs]

NpHw    == Np("n1", <<S("HW1")>>)
NpQuiz  == Np("n2", <<S("Quiz1"), S(" (retake)")>>)
NpBlank == Np("n3", <<>>)

NotionPages == {NpHw, NpQuiz, NpBlank}

MaxPages == 2

PageLists == {t \in SeqsUpTo(NotionPages, MaxPages) : Distinct(t)}

NoPage == Np("", <<>>)

\* item.properties.Title.title[0].plain_text === given_item.title; reading
\* [0].plain_text of an empty title raises a TypeError
TitleReadThrows(p) == p.title = <<>>

NotionMatches(p, given_item) == ~TitleReadThrows(p) /\ p.title[1] = given_item.title

\* items.find(...) inside try/catch: the first match, unless the predicate
\* raised on an earlier page (then the catch answers false)
checkIfAlreadyAddedNotion(items, given_item) ==
    LET stop(k) == TitleReadThrows(items[k]) \/ NotionMatches(items[k], given_item)
    IN IF \E k \in 1..Len(items) : stop(k)
       THEN LET k == CHOOSE k \in 1..Len(items) :
                        stop(k) /\ \A m \in 1..(k - 1) : ~stop(m)
            IN IF TitleReadThrows(items[k]) THEN NoPage ELSE items[k]
       ELSE NoPage

NotionProperties(item) ==
    [Title |-> item.title, DueDate |-> item.due_date,
     Tags |-> <<<<"School">>, item.class_name>>,
     Description |-> IF Truthy(item.description) THEN item.description ELSE <<>>]

\* One iteration of the loop of exportToNotion on an item whose due date has
\* been rewritten: the previous page found and the remote call made.
NotionIteration(item, pages) ==
    LET previous_item == checkIfAlreadyAddedNotion(pages, item)
    IN IF previous_item # NoPage
       THEN [prev |-> previous_item, branch |-> "update",
             call |-> [op |-> "pages.update", id |-> previous_item.id,
                       properties |-> NotionProperties(item)]]
       ELSE [prev |-> previous_item, branch |-> "create",
             call |-> [op |-> "pages.create",
                       properties |-> NotionProperties(item)
                                      @@ [PRIORITY |-> Priority, Status |-> "Not Started"]]]

NotionApply(remote, call) ==
    IF call.op = "pages.create"
    THEN Append(remote, Np(ToString(Len(remote) + 1), <<call.properties.Title>>))
    ELSE [k \in 1..Len(remote) |->
            IF remote[k].id = call.id
            THEN [remote[k] EXCEPT !.title = <<call.properties.Title>>]
            ELSE remote[k]]

\* a variant without the second guard
DatabaseIdUnchecked(c) == TRUE

\* if (!config.notion_db_id) return
DatabaseIdPresent(c) == c.notion_db_id

\* the two configuration guards at the top of exportToNotion
NotionEntry ==
    /\ pc = "nt_entry"
    /\ ntRun' = ntRun + 1
    /\ IF ~config.notion_api_key
       THEN /\ pc' = "nt_returned"
            /\ emitted' = <<Ev("info", "Notion export skipped - no API key configured", 0)>>
       ELSE IF ~DatabaseIdPresent(config)
       THEN /\ pc' = "nt_returned"
            /\ emitted' = <<Ev("warn", "Notion export skipped - no database ID configured", 0)>>
       ELSE /\ pc' = "nt_query"
            /\ emitted' = <<Ev("info", "Starting Notion export with performance tracking", 0)>>
    /\ UNCHANGED <<assignments, apiStats, scrapeVars, mainVars, tdVars,
                   ntRemote, future_tasks, ntIdx, ntLast>>
    /\ UNCHANGED fnVars

\* notion.databases.query: the up-front snapshot, or the failure that is
\* logged, re-thrown and swallowed by the outer catch
NotionQuery ==
    /\ pc = "nt_query"
    /\ \/ /\ future_tasks' = ntRemote
          /\ ntIdx' = 0
          /\ emitted' = <<Ev("info", "Notion database query completed", 0)>>
          /\ pc' = "nt_loop"
       \/ /\ emitted' = <<Ev("error", "Notion database query failed", 0),
                          Ev("error", "Notion export failed completely", 0)>>
          /\ pc' = "nt_returned"
          /\ UNCHANGED <<future_tasks, ntIdx>>
    /\ UNCHANGED <<assignments, apiStats, scrapeVars, mainVars, tdVars,
                   ntRemote, ntLast, ntRun>>
    /\ UNCHANGED fnVars

\* a variant that also stores the description it sends (item.description || "")
WithDueDateAndDescription(item, due) ==
    [item EXCEPT !.due_date = due,
                 !.description = IF Truthy(@) THEN @ ELSE <<>>]

\* item["due_date"]["string"] = temp_date.toISOString(): the only write to
\* an item in the loop
WithDueDate(item, due) == [item EXCEPT !.due_date = due]

\* a variant whose catch re-throws: the engine's outer catch ends the run
NotionCallRethrows(ok) == IF ok THEN "nt_loop" ELSE "nt_returned"

\* where control goes after the try/catch around pages.update /
\* pages.create: the catch counts and logs, nothing is re-thrown
NotionAfterCall(ok) == "nt_loop"

\* one iteration of the loop over assignments
NotionItem ==
    /\ pc = "nt_loop"
    /\ ntIdx < Len(assignments)
    /\ LET orig == assignments[ntIdx + 1]
           idx  == ntIdx + 1
       IN \E now \in (IF ParseDate(orig.due_date).ok THEN {CHOOSE c \in Clock : TRUE} ELSE Clock),
             ok \in BOOLEAN :
            LET item == WithDueDate(orig, NotionDueDate(orig.due_date, now))
                it   == NotionIteration(item, future_tasks)
            IN /\ assignments' = [assignments EXCEPT ![idx] = item]
               /\ ntLast' = [idx |-> idx, item |-> item, original |-> orig,
                             parsed |-> ParseDate(orig.due_date), now |-> now,
                             prev |-> it.prev, branch |-> it.branch,
                             call |-> it.call, ok |-> ok, before |-> apiStats]
               /\ apiStats' = Counted(apiStats, "notion", it.call, ok)
               /\ ntRemote' = IF ok THEN NotionApply(ntRemote, it.call) ELSE ntRemote
               /\ emitted' =
                    (IF ParseDate(orig.due_date).ok THEN <<>>
                     ELSE <<Ev("warn", "Failed to parse assignment date, using current date", idx)>>)
                    \o (IF it.branch = "update"
                        THEN <<Ev("info", "Existing Notion item found, updating", idx),
                               IF ok THEN Ev("info", "Notion page updated successfully", idx)
                               ELSE Ev("error", "Notion page update failed", idx)>>
                        ELSE <<Ev("info", "Creating new Notion page", idx),
                               IF ok THEN Ev("info", "Notion page created successfully", idx)
                               ELSE Ev("error", "Notion API error during page creation", idx)>>)
               /\ pc' = NotionAfterCall(ok)
    /\ ntIdx' = AfterAttempt(ntIdx, ntLast'.ok)
    /\ UNCHANGED <<scrapeVars, mainVars, tdVars, future_tasks, ntRun>>
    /\ UNCHANGED fnVars

\* the loop is over: the summary is logged and the engine returns
NotionDone ==
    /\ pc = "nt_loop"
    /\ ntIdx = Len(assignments)
    /\ emitted' = <<Ev("info", "Notion export completed", 0)>>
    /\ pc' = "nt_returned"
    /\ UNCHANGED <<assignments, apiStats, scrapeVars, mainVars, tdVars, ntVars>>
    /\ UNCHANGED fnVars

NextNotion ==
    \/ NotionEntry
    \/ NotionQuery
    \/ NotionItem
    \/ NotionDone

----------------------------------------------------------------------------
(* The orchestrator (main.js) *)

ScrapeLocalsReset ==
    /\ browser' = "undefined"
    /\ page' = "undefined"
    /\ item_links' = <<>>
    /\ i' = 0
    /\ visited' = <<>>
    /\ UNCHANGED fatal
    /\ scrapingStats' = ZeroScrapingStats
    /\ assignment_page' = "undefined"
    /\ closeCalls' = 0
    /\ openPages' = {}

\* --skip-scraping loads output.json (or keeps []); otherwise scrapeCanvas runs
MainStart ==
    /\ pc = "main_start"
    /\ \/ /\ assignments' = IF outputJson.exists THEN outputJson.items ELSE <<>>
          /\ pc' = "main_export"
       \/ /\ pc' = "scrape_start"
          /\ UNCHANGED assignments
    /\ emitted' = <<Ev("info", "Starting Canvas scraping application", 0)>>
    /\ UNCHANGED <<apiStats, scrapeVars, mainVars, tdVars, ntVars>>
    /\ UNCHANGED fnVars

\* assignments = await scrapeCanvas(...)
MainScrapeReturned ==
    /\ pc = "scrape_returned"
    /\ pc' = "main_export"
    /\ ScrapeLocalsReset
    /\ emitted' = <<>>
    /\ UNCHANGED <<assignments, apiStats, mainVars, tdVars, ntVars>>
    /\ UNCHANGED fnVars

\* catch (error) of main: log and process.exit(1)
MainCatch ==
    /\ pc \in {"scrape_raised", "td_raised"}
    /\ pc' = "exit1"
    /\ ScrapeLocalsReset
    /\ emitted' = <<Ev("error", "Canvas scraping application failed", 0)>>
    /\ UNCHANGED <<assignments, apiStats, mainVars, tdVars, ntVars>>
    /\ UNCHANGED fnVars

\* a variant that writes the snapshot whatever the flags
WritesSnapshotAlways(flags) == TRUE

\* if (!(todoist || notion)) fs.writeFileSync("output.json", ...)
WritesSnapshot(flags) == ~(flags.todoist \/ flags.notion)

\* the snapshot is written when neither export flag is set, then main ends
MainFinish ==
    /\ outputWritten' = WritesSnapshot(exportTo)
    /\ outputJson' = IF WritesSnapshot(exportTo)
                     THEN [exists |-> TRUE, items |-> assignments]
                     ELSE outputJson
    /\ emitted' = <<Ev("info", "Canvas scraping application completed successfully", 0)>>
    /\ pc' = "main_done"
    /\ UNCHANGED fnVars

\* a variant that starts with the database engine when both flags are set
NotionGoesFirst(flags) == flags.todoist /\ ~flags.notion

\* if (todoist) await exportToTodoist(...) comes before if (notion) ...
TodoistGoesFirst(flags) == flags.todoist

\* if (todoist) await exportToTodoist(...)
MainExport ==
    /\ pc = "main_export"
    /\ IF TodoistGoesFirst(exportTo)
       THEN /\ pc' = "td_entry"
            /\ emitted' = <<>>
            /\ UNCHANGED <<outputJson, outputWritten>>
       ELSE IF exportTo.notion
       THEN /\ pc' = "nt_entry"
            /\ emitted' = <<>>
            /\ UNCHANGED <<outputJson, outputWritten>>
       ELSE MainFinish
    /\ UNCHANGED <<assignments, apiStats, scrapeVars, exportTo, config, tdVars, ntVars>>
    /\ UNCHANGED fnVars

\* exportToTodoist returned; if (notion) await exportToNotion(...)
MainTodoistReturned ==
    /\ pc = "td_returned"
    /\ current_items' = <<>>
    /\ current_projects' = <<>>
    /\ tdIdx' = 0
    /\ tdLast' = NoIteration
    /\ IF exportTo.notion
       THEN /\ pc' = "nt_entry"
            /\ emitted' = <<>>
            /\ UNCHANGED <<outputJson, outputWritten>>
       ELSE MainFinish
    /\ UNCHANGED <<assignments, apiStats, scrapeVars, exportTo, config,
                   tdRemote, run, ntVars>>
    /\ UNCHANGED fnVars

\* exportToNotion returned
MainNotionReturned ==
    /\ pc = "nt_returned"
    /\ MainFinish
    /\ UNCHANGED <<assignments, apiStats, scrapeVars, exportTo, config, tdVars, ntVars>>

----------------------------------------------------------------------------
(* Specifications *)

Flags == [todoist : BOOLEAN, notion : BOOLEAN]

\* which credentials are configured; a credential of a disabled engine is
\* never read
Configs(flags) ==
    {c \in [todoist_api_key : BOOLEAN, notion_api_key : BOOLEAN, notion_db_id : BOOLEAN] :
        /\ ~flags.todoist => c.todoist_api_key
        /\ ~flags.notion => c.notion_api_key /\ c.notion_db_id}

\* checkConfigExists is not under way
ConfigIdle ==
    /\ customPath = NULL
    /\ home = NULL
    /\ existing = {}
    /\ configStatus = NULL

InitLocals ==
    /\ browser = "undefined"
    /\ page = "undefined"
    /\ item_links = <<>>
    /\ i = 0
    /\ visited = <<>>
    /\ fatal = "none"
    /\ scrapingStats = ZeroScrapingStats
    /\ assignment_page = "undefined"
    /\ closeCalls = 0
    /\ openPages = {}
    /\ emitted = <<>>
    /\ apiStats = ZeroApiStats
    /\ outputWritten = FALSE
    /\ current_items = <<>>
    /\ current_projects = <<>>
    /\ tdIdx = 0
    /\ tdLast = NoIteration
    /\ run = 0
    /\ future_tasks = <<>>
    /\ ntIdx = 0
    /\ ntLast = NoIteration
    /\ ntRun = 0
    /\ cleanArg = NULL
    /\ cleanRet = NULL
    /\ ConfigIdle

NoFile == [exists |-> FALSE, items |-> <<>>]

File(items) == [exists |-> TRUE, items |-> items]

\* The surroundings of one invocation of main.js: what the planner shows,
\* the output.json left on disk, and what the two services hold.
MainLinks == {Lk(PgHW, "none", FALSE), Lk(PgQuiz, "none", FALSE), Lk(PgHW, "wait", FALSE)}

MainFiles == {NoFile, File(<<ItemOf(PgHW)>>), File(<<ItemOf(PgHW), ItemOf(PgQuiz)>>)}

MainTodoist ==
    {[tasks |-> <<>>, projects |-> <<>>],
     [tasks |-> <<TkHwDone>>, projects |-> <<PjHome, PjAtls, PjCs>>],
     [tasks |-> <<TkOther, TkHwOpen>>, projects |-> <<PjHome>>]}

MainNotion == {<<>>, <<NpHw>>, <<NpBlank, NpQuiz>>}

\* one invocation of main.js
Init ==
    /\ pc = "main_start"
    /\ assignments = <<>>
    /\ exportTo \in Flags
    /\ config \in Configs(exportTo)
    /\ outputJson \in MainFiles
    /\ tdRemote \in MainTodoist
    /\ ntRemote \in MainNotion
    /\ InitLocals

Next ==
    \/ MainStart
    \/ MainScrapeReturned
    \/ MainCatch
    \/ MainExport
    \/ MainTodoistReturned
    \/ MainNotionReturned
    \/ Launch
    \/ performCanvasLogin
    \/ navigateToPlanner
    \/ DiscoverFrom(SeqsUpTo(MainLinks, MaxItems))
    \/ LoopNewPage
    \/ ItemBody
    \/ ItemFinally
    \/ LoopExit
    \/ ScrapeCatch
    \/ ScrapeFinally
    \/ TodoistEntry
    \/ TodoistFetch
    \/ TodoistItem
    \/ TodoistDone
    \/ NextNotion

Spec == Init /\ [][Next]_vars

\* scrapeCanvas alone, on any planner of up to MaxLinks links
InitScrape ==
    /\ pc = "scrape_start"
    /\ assignments = <<>>
    /\ exportTo = [todoist |-> FALSE, notion |-> FALSE]
    /\ config \in Configs(exportTo)
    /\ outputJson = NoFile
    /\ tdRemote = [tasks |-> <<>>, projects |-> <<>>]
    /\ ntRemote = <<>>
    /\ InitLocals

SpecScrape == InitScrape /\ [][NextScrape]_vars

\* What an item page can render: every outcome of the three marker probes,
\* first breadcrumbs equal to, differing from and extending "Announcements",
\* and field elements that are absent or carry one of several texts.
Markers == {"yes", "no", "throw"}

Crumbs == {NULL, S("Announcements"), S("announcements"), <<"Announcements", " ">>}

DueTexts ==
    {NULL, S("Mon"), <<"Due: ", "Mon", " by ", "4pm">>,
     <<"Due: ", "Sep 23", " by ", "11pm", " by ", "x">>, <<" ", "Due: ", "Mon", " ">>}

AnyPages ==
    {Pg(a, q, d, c, t, du, de, ClsAtls, <<"/a/", "1">>) :
        a \in Markers, q \in Markers, d \in Markers, c \in Crumbs,
        t \in {NULL, S("HW1")}, du \in DueTexts, de \in {NULL, S("read ch1")}}

AnyLinks == {Lk(p, f, c) : p \in AnyPages, f \in {"none", "extract"}, c \in BOOLEAN}

\* one iteration of the extraction loop, on any link to any such page: the
\* state of scrapeCanvasItems once discovery has found that one link
InitItem ==
    /\ pc = "loop"
    /\ assignments = <<>>
    /\ exportTo = [todoist |-> FALSE, notion |-> FALSE]
    /\ config \in Configs(exportTo)
    /\ outputJson = NoFile
    /\ tdRemote = [tasks |-> <<>>, projects |-> <<>>]
    /\ ntRemote = <<>>
    /\ browser = "open"
    /\ page = "open"
    /\ item_links \in {<<l>> : l \in AnyLinks}
    /\ i = 0
    /\ visited = <<>>
    /\ fatal = "none"
    /\ scrapingStats = Bump(ZeroScrapingStats, "totalItems", 1)
    /\ assignment_page = "undefined"
    /\ closeCalls = 0
    /\ openPages = {}
    /\ emitted = <<Ev("info", "Discovered planner items", 0)>>
    /\ apiStats = ZeroApiStats
    /\ outputWritten = FALSE
    /\ current_items = <<>>
    /\ current_projects = <<>>
    /\ tdIdx = 0
    /\ tdLast = NoIteration
    /\ run = 0
    /\ future_tasks = <<>>
    /\ ntIdx = 0
    /\ ntLast = NoIteration
    /\ ntRun = 0
    /\ cleanArg = NULL
    /\ cleanRet = NULL
    /\ ConfigIdle

NextItem ==
    \/ LoopNewPage
    \/ ItemBody
    \/ ItemFinally
    \/ LoopExit

SpecItem == InitItem /\ [][NextItem]_vars

\* Names handed to cleanName: up to MaxPieces pieces of class names laid end
\* to end, and the two class names of the portal
MaxPieces == 4

Pieces ==
    {<<"C", "S">>, <<"2", "2", "7", "0">>, <<"0", "0", "1">>, <<"4", "2">>,
     <<" ">>, <<"-">>, <<"S", "e", "c", "t", "i", "o", "n">>,
     <<" ", "S", "e", "c", "t", "i", "o", "n", " ">>, <<" ", "-", " ">>}

RECURSIVE Flat(_)
Flat(q) == IF q = <<>> THEN <<>> ELSE Head(q) \o Flat(Tail(q))

Names == {Flat(q) : q \in SeqsUpTo(Pieces, MaxPieces)} \cup {ClsAtls, ClsCs}

\* one call of cleanName
CleanNameCall ==
    /\ pc = "clean_call"
    /\ cleanRet' = cleanName(cleanArg)
    /\ pc' = "clean_returned"
    /\ emitted' = <<>>
    /\ UNCHANGED <<cleanArg, cfgVars, assignments, apiStats, scrapeVars, mainVars, tdVars, ntVars>>

\* cleanName alone, on any of Names
InitClean ==
    /\ pc = "clean_call"
    /\ assignments = <<>>
    /\ exportTo = [todoist |-> FALSE, notion |-> FALSE]
    /\ config \in Configs(exportTo)
    /\ outputJson = NoFile
    /\ tdRemote = [tasks |-> <<>>, projects |-> <<>>]
    /\ ntRemote = <<>>
    /\ browser = "undefined"
    /\ page = "undefined"
    /\ item_links = <<>>
    /\ i = 0
    /\ visited = <<>>
    /\ fatal = "none"
    /\ scrapingStats = ZeroScrapingStats
    /\ assignment_page = "undefined"
    /\ closeCalls = 0
    /\ openPages = {}
    /\ emitted = <<>>
    /\ apiStats = ZeroApiStats
    /\ outputWritten = FALSE
    /\ current_items = <<>>
    /\ current_projects = <<>>
    /\ tdIdx = 0
    /\ tdLast = NoIteration
    /\ run = 0
    /\ future_tasks = <<>>
    /\ ntIdx = 0
    /\ ntLast = NoIteration
    /\ ntRun = 0
    /\ cleanArg \in Names
    /\ cleanRet = NULL
    /\ ConfigIdle

NextClean == CleanNameCall

SpecClean == InitClean /\ [][NextClean]_vars

----------------------------------------------------------------------------
(* checkConfigExists (src/config-wizard.js) *)

\* String.prototype.endsWith
EndsWith(s, suffix) == OccursAt(s, suffix, Len(s) - Len(suffix) + 1)

HomeDir == <<"/home/u">>

\* path.join(home, name); a home that is undefined makes path.join raise a
\* TypeError
PathJoin(dir, name) == dir \o <<"/">> \o name

\* the four standard locations, in the order they are examined
StandardPaths(h) ==
    <<<<"./", ".env">>,
      <<"./", "config", ".json">>,
      PathJoin(h, <<".canvas-scraper", ".env">>),
      PathJoin(h, <<".canvas-scraper", ".json">>)>>

\* customPath ? [customPath] : [the standard locations]
possiblePaths(custom, h) ==
    IF Truthy(custom) THEN <<custom>> ELSE StandardPaths(h)

\* building the list raises: no custom path and no home directory
JoinRaises(custom, h) == ~Truthy(custom) /\ h = NULL

\* configPath.endsWith(".json") ? "json" : "env"
FormatOf(configPath) == IF EndsWith(configPath, <<".json">>) THEN "json" ELSE "env"

NotFound == [exists |-> FALSE, path |-> NULL, format |-> NULL]

\* the for loop over possiblePaths with fs.existsSync
FirstExisting(paths, files) ==
    IF \E k \in 1..Len(paths) : paths[k] \in files
    THEN LET k == CHOOSE k \in 1..Len(paths) :
                     paths[k] \in files /\ \A m \in 1..(k - 1) : paths[m] \notin files
         IN [exists |-> TRUE, path |-> paths[k], format |-> FormatOf(paths[k])]
    ELSE NotFound

\* one call of checkConfigExists
checkConfigExists ==
    /\ pc = "config_call"
    /\ IF JoinRaises(customPath, home)
       THEN /\ configStatus' = [raised |-> "TypeError"]
            /\ pc' = "config_raised"
       ELSE /\ configStatus' = FirstExisting(possiblePaths(customPath, home), existing)
            /\ pc' = "config_returned"
    /\ emitted' = <<>>
    /\ UNCHANGED <<customPath, home, existing, cleanArg, cleanRet, assignments, apiStats,
                   scrapeVars, mainVars, tdVars, ntVars>>

\* the custom paths a caller hands over: none, the empty string, paths of
\* either format, and paths that hold "json" without ending in ".json"
CustomPaths ==
    {NULL, <<>>, <<"custom", ".env">>, <<"test", ".json">>, <<"x", ".json", ".bak">>,
     <<"notes", "json">>, <<"./", "config", ".json">>}

\* the files that may be on disk
ConfigFiles ==
    {StandardPaths(HomeDir)[k] : k \in 1..4} \cup (CustomPaths \ {NULL, <<>>})

\* checkConfigExists alone, with any custom path, any set of files on disk,
\* and the home directory known to the environment or not
InitConfig ==
    /\ pc = "config_call"
    /\ assignments = <<>>
    /\ exportTo = [todoist |-> FALSE, notion |-> FALSE]
    /\ config \in Configs(exportTo)
    /\ outputJson = NoFile
    /\ tdRemote = [tasks |-> <<>>, projects |-> <<>>]
    /\ ntRemote = <<>>
    /\ browser = "undefined"
    /\ page = "undefined"
    /\ item_links = <<>>
    /\ i = 0
    /\ visited = <<>>
    /\ fatal = "none"
    /\ scrapingStats = ZeroScrapingStats
    /\ assignment_page = "undefined"
    /\ closeCalls = 0
    /\ openPages = {}
    /\ emitted = <<>>
    /\ apiStats = ZeroApiStats
    /\ outputWritten = FALSE
    /\ current_items = <<>>
    /\ current_projects = <<>>
    /\ tdIdx = 0
    /\ tdLast = NoIteration
    /\ run = 0
    /\ future_tasks = <<>>
    /\ ntIdx = 0
    /\ ntLast = NoIteration
    /\ ntRun = 0
    /\ cleanArg = NULL
    /\ cleanRet = NULL
    /\ customPath \in CustomPaths
    /\ home \in {NULL, HomeDir}
    /\ existing \in SUBSET ConfigFiles
    /\ configStatus = NULL

NextConfig == checkConfigExists

SpecConfig == InitConfig /\ [][NextConfig]_vars

\* exportToTodoist alone, on any list of up to MaxItems items the scraper can
\* return, run up to MaxRuns times against the same service
InitTodoist ==
    /\ pc = "td_entry"
    /\ assignments \in SeqsUpTo(Items, MaxItems)
    /\ exportTo = [todoist |-> TRUE, notion |-> FALSE]
    /\ config \in Configs(exportTo)
    /\ outputJson = NoFile
    /\ tdRemote \in [tasks : TaskLists, projects : ProjectLists]
    /\ ntRemote = <<>>
    /\ InitLocals

SpecTodoist == InitTodoist /\ [][NextTodoist]_vars

\* exportToNotion alone, on any list of up to MaxItems items the scraper can
\* return, against any database of up to MaxPages pages
InitNotion ==
    /\ pc = "nt_entry"
    /\ assignments \in SeqsUpTo(Items \cup {ItemOf(PgLate)}, MaxItems)
    /\ exportTo = [todoist |-> FALSE, notion |-> TRUE]
    /\ config \in Configs(exportTo)
    /\ outputJson = NoFile
    /\ tdRemote = [tasks |-> <<>>, projects |-> <<>>]
    /\ ntRemote \in PageLists
    /\ InitLocals

SpecNotion == InitNotion /\ [][NextNotion]_vars

----------------------------------------------------------------------------
(* Properties of exportToTodoist, stated on SpecTodoist *)

\* the position in the snapshot of the task an item is matched to: the first
\* task whose content is the item's title or whose description contains the
\* item's URL; 0 when there is none
MatchedTask(item, tasks) ==
    LET hits == {k \in 1..Len(tasks) :
                    \/ tasks[k].content = item.title
                    \/ /\ Truthy(item.url)
                       /\ Truthy(tasks[k].description)
                       /\ Includes(tasks[k].description, item.url)}
    IN IF hits = {} THEN 0 ELSE CHOOSE k \in hits : \A j \in hits : k <= j

\* the loop of exportToTodoist has just handled an item
TodoistHandled == pc \in {"td_loop", "td_returned"} /\ tdLast.idx # 0

\* C1: an item whose matched remote task (by title or by URL) is completed
\* takes the completed-skip: no addTask and no updateTask is issued for it,
\* whatever the item's content, and no counter moves.
C1_CompletedProtection ==
    TodoistHandled =>
        LET m == MatchedTask(tdLast.item, current_items)
        IN (m # 0 /\ current_items[m].isCompleted) =>
              /\ tdLast.branch = "skip_completed"
              /\ tdLast.call = NoCall
              /\ tdLast.prev = current_items[m]
              /\ apiStats.todoist = ZeroApiStats.todoist

\* an item with a description, matched by its URL alone to a completed task
\* under another title, has been skipped
C1_Witness ==
    /\ TodoistHandled
    /\ tdLast.branch = "skip_completed"
    /\ tdLast.prev.isCompleted
    /\ tdLast.prev.content # tdLast.item.title
    /\ Truthy(tdLast.item.description)

\* C2: on a second run over the same list, against the tasks the first run
\* left, no task is created: every item is matched by title or URL and
\* resolves to an update or a skip.
C2_SecondRunIdempotent ==
    (TodoistHandled /\ run = 2) =>
        /\ tdLast.call.op # "addTask"
        /\ MatchedTask(tdLast.item, current_items) # 0
        /\ tdLast.branch \in {"update", "update_skipped", "skip_completed"}

\* C3: an item with no match in the snapshot gets exactly one addTask, with
\* the title as content, the cleaned due string, the project when one was
\* resolved, and priority 3.
C3_UnmatchedCreates ==
    (TodoistHandled /\ MatchedTask(tdLast.item, current_items) = 0) =>
        /\ tdLast.call.op = "addTask"
        /\ tdLast.call.data.content = tdLast.item.title
        /\ Truthy(CleanedDueDate(tdLast.item.due_date))
              => tdLast.call.data.dueString = CleanedDueDate(tdLast.item.due_date)
        /\ findRelatedProject(current_projects, tdLast.item.class_name) # ""
              => tdLast.call.data.projectId
                    = findRelatedProject(current_projects, tdLast.item.class_name)
        /\ tdLast.call.data.priority = 3

\* C4: an item matched to a task that is not completed gets an updateTask
\* exactly when its description is non-empty, and the update carries the
\* description (with the Canvas link) and nothing else.
C4_MatchedUpdates ==
    TodoistHandled =>
        LET m == MatchedTask(tdLast.item, current_items)
        IN (m # 0 /\ ~current_items[m].isCompleted) =>
              IF Truthy(tdLast.item.description)
              THEN /\ tdLast.call.op = "updateTask"
                   /\ tdLast.call.id = current_items[m].id
                   /\ DOMAIN tdLast.call.data = {"description"}
              ELSE tdLast.call = NoCall

----------------------------------------------------------------------------
(* Properties of the two engines under main.js, stated on Spec *)

Services == {"notion", "todoist"}

Counters == {"creates", "updates", "errors"}

\* the counter an attempted call is to be counted in
CounterOf(call, ok) ==
    IF ~ok THEN "errors"
    ELSE IF call.op \in {"addTask", "pages.create"} THEN "creates"
    ELSE "updates"

\* between before and after, the given counter of the given service grew by
\* one and every other counter of either service kept its value
OneCounterMoved(before, after, service, counter) ==
    \A sv \in Services, k \in Counters :
        after[sv][k] = before[sv][k] + (IF sv = service /\ k = counter THEN 1 ELSE 0)

\* C5: in both engines a failed create or update does not stop the loop: the
\* items are handled one after the other in list order, an engine that
\* counted a failed call still reaches the end of the list and returns, and
\* an engine never raises out of its loop.
C5_FailedCallDoesNotStopLoop ==
    /\ (pc = "nt_loop" /\ ntLast.idx # 0) =>
          /\ ntLast.idx = ntIdx
          /\ ntIdx <= Len(assignments)
          /\ ntLast.item = assignments[ntIdx]
    /\ (pc = "nt_returned" /\ apiStats.notion.errors > 0) =>
          /\ ntIdx = Len(assignments)
          /\ ntLast.idx = ntIdx
    /\ (pc = "td_loop" /\ tdLast.idx # 0) =>
          /\ tdLast.idx = tdIdx
          /\ tdIdx <= Len(assignments)
          /\ tdLast.item = assignments[tdIdx]
    /\ (pc = "td_returned" /\ apiStats.todoist.errors > 0) =>
          /\ tdIdx = Len(assignments)
          /\ tdLast.idx = tdIdx
    /\ pc = "td_raised" => (tdLast.idx = 0 /\ apiStats.todoist.errors = 0)

\* the call for the first of two items failed, the second item was handled
\* and its call succeeded, and the engine returned
C5_Witness ==
    /\ pc = "nt_returned"
    /\ Len(assignments) = 2
    /\ apiStats.notion.errors = 1
    /\ ntLast.idx = 2
    /\ ntLast.ok

\* C6: each attempted create or update changes exactly one counter of its
\* own service by exactly one (creates or updates when it succeeds, errors
\* when it fails) and no counter of the other service.
C6_OneCounterPerCall ==
    /\ (ntLast.idx # 0 /\ ntLast.call.op # "none") =>
          OneCounterMoved(ntLast.before, apiStats, "notion", CounterOf(ntLast.call, ntLast.ok))
    /\ (tdLast.idx # 0 /\ tdLast.call.op # "none") =>
          OneCounterMoved(tdLast.before, apiStats, "todoist", CounterOf(tdLast.call, tdLast.ok))

\* an update that succeeded was followed by a create that failed
C6_Witness ==
    /\ ntLast.idx = 2
    /\ ntLast.call.op = "pages.create"
    /\ ~ntLast.ok
    /\ apiStats.notion = [creates |-> 0, updates |-> 1, errors |-> 1]

\* C7: with both engines enabled, the failure of one engine's initial fetch
\* ends that engine only: the other engine still runs in the same invocation.
C7_FetchFailureIsolated ==
    (pc \in {"exit1", "main_done"} /\ exportTo.todoist /\ exportTo.notion) =>
        /\ run > 0 => ntRun > 0
        /\ ntRun > 0 => run > 0

----------------------------------------------------------------------------
(* Properties of the extraction loop, stated on SpecScrape *)

ScrapeLoopDone == pc \in {"scrape_finally_ok", "scrape_returned"}

ScrapeInLoop == pc \in {"loop", "item_body", "item_finally"}

ScrapeAborted == pc \in {"scrape_catch", "scrape_finally_err", "scrape_raised"}

\* C8: once discovery succeeded, an exception while an item is processed never
\* aborts the batch: the iterations started are those of links 1, 2, ... in
\* turn, each once, and when the loop is over every discovered link has had
\* its iteration and a list is returned.
C8_BatchNeverAborts ==
    /\ item_links # <<>> => ~ScrapeAborted
    /\ (ScrapeInLoop \/ ScrapeLoopDone) =>
          /\ Len(visited) <= Len(item_links)
          /\ \A k \in 1..Len(visited) : visited[k] = k
    /\ ScrapeLoopDone =>
          /\ Len(visited) = Len(item_links)
          /\ Len(assignments) <= Len(item_links)

\* three links were discovered, the first two raised in their iteration, and
\* the list was still returned after the third
C8_Witness ==
    /\ pc = "scrape_returned"
    /\ Len(item_links) = 3
    /\ item_links[1].fault = "newPage"
    /\ item_links[2].fault = "wait"
    /\ visited = <<1, 2, 3>>
    /\ Len(assignments) = 1

\* the processing of the item behind link l raised an exception
ItemFailed(l) ==
    \/ l.fault \in {"newPage", "nav", "wait", "content"}
    \/ l.fault = "extract" /\ Classify(l.page) # "none"
    \/ l.closeFails /\ Classify(l.page) = "none" /\ l.fault \in {"none", "title"}

\* C9: every per-item failure of the extraction loop is counted: after the
\* loop, scrapingStats.errors is the number of items whose navigation, content
\* wait, classification or extraction failed.
C9_EveryFailureCounted ==
    ScrapeLoopDone =>
        scrapingStats.errors = Cardinality({k \in 1..Len(item_links) : ItemFailed(item_links[k])})

\* classification and extraction of the item behind link l succeeded
Succeeded(l) == l.fault \in {"none", "title"} /\ Classify(l.page) # "none"

\* a wait for the content of the page behind link l times out
ContentWaitTimesOut(l) == l.fault \in {"wait", "content"}

\* the subsequence of the links that succeeded, each as its extracted item
ExpectedList(links) ==
    LET kept == SelectSeq(links, Succeeded)
    IN [k \in 1..Len(kept) |-> ItemOf(kept[k].page)]

\* C10: the returned list holds exactly the items whose classification and
\* extraction succeeded, in discovery order; with three links of which the
\* second has a content wait time out, the list is items 1 and 3 in that
\* order and the error counter is 1.
C10_ResultIsSubsequence ==
    ScrapeLoopDone =>
        /\ assignments = ExpectedList(item_links)
        /\ ( /\ Len(item_links) = 3
             /\ Succeeded(item_links[1])
             /\ ContentWaitTimesOut(item_links[2])
             /\ Succeeded(item_links[3]) ) =>
               /\ assignments = <<ItemOf(item_links[1].page), ItemOf(item_links[3].page)>>
               /\ scrapingStats.errors = 1

\* the iteration of link i is over and the next one has not started
BetweenIterations == pc = "loop" /\ i > 0

C12_TeardownGuaranteed ==
    (pc \in {"scrape_returned", "scrape_raised"} /\ browser # "undefined") =>
        /\ browser \in {"closed", "close_failed"}
        /\ \E k \in 1..Len(emitted) :
              emitted[k].msg = "Canvas scraping session completed successfully"

----------------------------------------------------------------------------
(* Properties of scrapeCanvas under main.js, stated on Spec *)

\* the fatal stages C13 names: login-control discovery, the post-login
\* dashboard anchor wait, the planner-marker wait
NamedFatalStages == {"form", "dashboard", "planner"}

\* C13: once login-control discovery, the dashboard anchor wait or the
\* planner-marker wait has failed, control is only ever on the way out of
\* scrapeCanvas or at the orchestrator's exit: no item page is opened, neither
\* engine is entered and no snapshot is written.
C13_FatalFailuresAbort ==
    fatal \in NamedFatalStages =>
        /\ pc \in {"scrape_catch", "scrape_finally_err", "scrape_raised", "exit1"}
        /\ visited = <<>>
        /\ assignment_page = "undefined"
        /\ run = 0
        /\ ntRun = 0
        /\ ~outputWritten

\* the planner-marker wait failed in a run with no engine enabled: the
\* orchestrator has exited and the snapshot it would have written is absent
C13_Witness ==
    /\ fatal = "planner"
    /\ pc = "exit1"
    /\ ~exportTo.todoist
    /\ ~exportTo.notion
    /\ ~outputWritten

\* C14: an empty planner is not an error: the loop has nothing to do, the
\* scraper returns the empty list with errors still 0 and without raising,
\* the orchestrator goes on to the export/snapshot step, and it exits without
\* exporting only after a fatal stage failure.
C14_ZeroItemsNotAnError ==
    /\ [](/\ (pc \in {"loop", "scrape_finally_ok", "scrape_returned"} /\ item_links = <<>>) =>
                /\ scrapingStats.errors = 0
                /\ assignments = <<>>
                /\ fatal = "none"
          /\ pc \in {"scrape_catch", "scrape_finally_err", "scrape_raised"} => fatal # "none"
          /\ (pc = "exit1" /\ run = 0) => fatal # "none")
    /\ [][pc = "scrape_returned" => pc' = "main_export"]_vars

\* discovery found no link and scrapeCanvas has returned
C14_Witness ==
    /\ pc = "scrape_returned"
    /\ scrapingStats.totalItems = 0
    /\ item_links = <<>>
    /\ assignments = <<>>
    /\ scrapingStats.errors = 0
    /\ browser = "closed"

----------------------------------------------------------------------------
(* Classification and extraction of one item *)

\* the try block of the iteration has run on the page of the link at hand
BodyRan == pc = "item_finally" /\ assignment_page # "undefined"

\* the marker tests that pass on a page, read off the page itself
PassesAssignment(pg) == pg.asg = "yes"

PassesQuiz(pg) == pg.quiz = "yes"

PassesDiscussion(pg) == pg.disc = "yes" /\ pg.crumb = <<"Announcements">>

FirstPassing(pg) ==
    IF PassesAssignment(pg) THEN "assignment"
    ELSE IF PassesQuiz(pg) THEN "quiz"
    ELSE IF PassesDiscussion(pg) THEN "discussion"
    ELSE "none"

Among(x, y) == IF x = y THEN 1 ELSE 0

\* C15: for every combination of marker presence the item is handled as the
\* first of assignment, quiz, discussion whose marker test passes: only that
\* kind's counter moves, a pushed item carries that type, and a page with
\* both the assignment and the quiz marker yields what the assignment
\* extractor returns.
C15_ClassificationPriority ==
    BodyRan =>
        LET pg    == item_links[i + 1].page
            first == FirstPassing(pg)
        IN /\ scrapingStats.assignments = Among(first, "assignment")
           /\ scrapingStats.quizzes = Among(first, "quiz")
           /\ scrapingStats.discussions = Among(first, "discussion")
           /\ \A k \in 1..Len(assignments) : assignments[k].type = first
           /\ (PassesAssignment(pg) /\ PassesQuiz(pg) /\ assignments # <<>>) =>
                  LET d == scrape_assignment_data(pg)
                  IN /\ assignments[1].title = d.title
                     /\ assignments[1].due_date = d.due_date
                     /\ assignments[1].description = d.description

C15_Witness ==
    /\ BodyRan
    /\ item_links[i + 1].page.asg = "yes"
    /\ item_links[i + 1].page.quiz = "yes"
    /\ PassesDiscussion(item_links[i + 1].page)
    /\ item_links[i + 1].page.desc = NULL
    /\ Len(assignments) = 1
    /\ assignments[1].type = "assignment"
    /\ assignments[1].description = <<>>
    /\ scrapingStats.quizzes = 0

\* the iteration of the last visited link has left its try block
IterationRan == visited # <<>> /\ pc # "item_body" /\ scrapingStats.totalItems = 1

LastLink == item_links[visited[Len(visited)]]

Unmatched(pg) == FirstPassing(pg) = "none"

C17_QuizDescriptionNull ==
    \A k \in 1..Len(assignments) :
        assignments[k].type = "quiz" => assignments[k].description = NULL

C17_Witness ==
    /\ IterationRan
    /\ LastLink.page.desc = S("read ch1")
    /\ LastLink.page.title = NULL
    /\ LastLink.page.due = NULL
    /\ Len(assignments) = 1
    /\ assignments[1].type = "quiz"
    /\ assignments[1].title = S("Untitled Quiz")
    /\ assignments[1].description = NULL

\* String.prototype.startsWith
StartsWith(s, pre) == OccursAt(s, pre, 1)

\* C18: for every item returned by any of the three extractors and every
\* rendered date text, the due-date string of the item does not begin with
\* "Due: " and does not contain " by ".
C18_DueDateCleaned ==
    \A k \in 1..Len(assignments) :
        /\ ~StartsWith(assignments[k].due_date, S("Due: "))
        /\ ~Includes(assignments[k].due_date, S(" by "))

----------------------------------------------------------------------------
(* Project-name normalization *)

IsPrefix(p, s) == Len(p) <= Len(s) /\ SubSeq(s, 1, Len(p)) = p

\* lowercased, only a-z, 0-9 and single blanks, none at either end
NormalForm(s) ==
    /\ \A k \in 1..Len(s) :
          \/ \E m \in 1..Len(LowerAZ) : LowerAZ[m] = s[k]
          \/ s[k] \in Digits
          \/ s[k] = " "
    /\ \A k \in 1..(Len(s) - 1) : ~(s[k] = " " /\ s[k + 1] = " ")
    /\ s # <<>> => s[1] # " " /\ s[Len(s)] # " "

HasSectionPart(s) == \E k \in 1..Len(s) : SectionAt(s, k)

EndsInNumber(s) == \E k \in 1..Len(s) : TrailingNumberAt(s, k)

----------------------------------------------------------------------------
(* Project resolution in the task-list engine *)

\* the projects of the snapshot whose lowercased name contains the
\* normalized class name
ProjectHits(projects, class_name) ==
    {k \in 1..Len(projects) :
        Includes(ToLowerCase(projects[k].name), cleanName(ToLowerCase(class_name)))}

\* C20: an item to be created is exported whether or not a project matches;
\* its payload carries a projectId only when some project of the snapshot
\* matches, and then the id of the first such project in snapshot order;
\* without a match no error is counted.
C20_ProjectResolution ==
    (TodoistHandled /\ MatchedTask(tdLast.item, current_items) = 0) =>
        LET hits == ProjectHits(current_projects, tdLast.item.class_name) IN
        /\ tdLast.call.op = "addTask"
        /\ Has(tdLast.call.data, "projectId") <=> hits # {}
        /\ hits # {} =>
              tdLast.call.data.projectId
                 = current_projects[CHOOSE k \in hits : \A j \in hits : k <= j].id
        /\ (hits = {} /\ tdLast.ok) =>
              apiStats.todoist.errors = tdLast.before.todoist.errors

----------------------------------------------------------------------------
(* Configuration guards and the orchestrator *)

TodoistUnconfigured == ~config.todoist_api_key

NotionUnconfigured == ~config.notion_api_key \/ ~config.notion_db_id

\* C21: an engine whose configuration is incomplete (the task-list engine
\* without API credential, the database engine without API key or without
\* database identifier) is a no-op: entered, it returns in one step, it never
\* fetches, creates or updates, and every counter stays as it was.
C21_GuardsMakeEngineNoOp ==
    /\ [](/\ TodoistUnconfigured =>
                /\ pc \notin {"td_fetch", "td_loop", "td_raised"}
                /\ current_items = <<>> /\ current_projects = <<>>
                /\ tdLast = NoIteration
                /\ apiStats.todoist = ZeroApiStats.todoist
          /\ NotionUnconfigured =>
                /\ pc \notin {"nt_query", "nt_loop"}
                /\ future_tasks = <<>>
                /\ ntLast = NoIteration
                /\ apiStats.notion = ZeroApiStats.notion)
    /\ [][/\ (pc = "td_entry" /\ TodoistUnconfigured) =>
                pc' = "td_returned" /\ UNCHANGED <<apiStats, tdRemote, ntRemote, assignments>>
          /\ (pc = "nt_entry" /\ NotionUnconfigured) =>
                pc' = "nt_returned" /\ UNCHANGED <<apiStats, tdRemote, ntRemote, assignments>>
          /\ TodoistUnconfigured => tdRemote' = tdRemote
          /\ NotionUnconfigured => ntRemote' = ntRemote]_vars

C21_Witness ==
    /\ pc = "nt_returned"
    /\ assignments # <<>>
    /\ config.notion_api_key
    /\ ~config.notion_db_id
    /\ ntRun = 1
    /\ ntRemote # <<>>
    /\ apiStats = ZeroApiStats
    /\ emitted = <<Ev("warn", "Notion export skipped - no database ID configured", 0)>>

----------------------------------------------------------------------------
(* Properties of exportToNotion, stated on SpecNotion *)

\* the loop of exportToNotion has just handled an item
NotionHandled == pc \in {"nt_loop", "nt_returned"} /\ ntLast.idx # 0

\* the records of the snapshot whose first Title text run is the item's title
TitleHits(item, pages) ==
    {k \in 1..Len(pages) : pages[k].title # <<>> /\ pages[k].title[1] = item.title}

\* C22: if some record of the snapshot has the item's title as its first
\* Title text run, the engine issues one update of such a record rewriting
\* title, due date, tags {"School", class name} and description; otherwise
\* it issues one create with the same properties plus status "Not Started"
\* and priority 3. The URL plays no part.
C22_NotionDecisionRule ==
    NotionHandled =>
        LET hits == TitleHits(ntLast.item, future_tasks)
            c    == ntLast.call
        IN /\ c.properties.Title = ntLast.item.title
           /\ c.properties.DueDate = ntLast.item.due_date
           /\ c.properties.Tags = <<<<"School">>, ntLast.item.class_name>>
           /\ IF hits # {}
              THEN /\ c.op = "pages.update"
                   /\ c.id \in {future_tasks[k].id : k \in hits}
                   /\ DOMAIN c.properties = {"Title", "DueDate", "Tags", "Description"}
              ELSE /\ c.op = "pages.create"
                   /\ c.properties.Status = "Not Started"
                   /\ c.properties.PRIORITY = 3

\* the step just taken is the iteration recorded in ntLast
NotionJustHandled == pc = "nt_loop" /\ ntLast.idx # 0 /\ ntLast.idx = ntIdx

Logged(level, msg, idx) ==
    \E k \in 1..Len(emitted) : emitted[k] = Ev(level, msg, idx)

\* C23: a due-date text that cannot be parsed never aborts the item: the
\* current instant takes the place of the parsed date (and gets the engine's
\* fixed offset like any other), a warning is logged for the item, and the
\* create or update call is still issued.
C23_ParseFailureFallsBackToNow ==
    (NotionJustHandled /\ ~ParseDate(ntLast.original.due_date).ok) =>
        /\ ntLast.now \in Clock
        /\ ntLast.call.op \in {"pages.create", "pages.update"}
        /\ ntLast.call.properties.DueDate = ToISOString(ntLast.now - TzOffsetHours)
        /\ Logged("warn", "Failed to parse assignment date, using current date", ntLast.idx)

C23_Witness ==
    /\ NotionJustHandled
    /\ ntLast.original.due_date = S("No due date")
    /\ ntLast.now = 5001
    /\ ntLast.call.op = "pages.create"
    /\ ntLast.call.properties.DueDate = <<"ISO", "4994">>
    /\ ntLast.ok

\* the instant the engine starts from: the parsed one, or the fallback
BaseInstant == IF ntLast.parsed.ok THEN ntLast.parsed.t ELSE ntLast.now

\* C24: for every item the due date sent to the database service is the
\* parsed instant minus exactly 7 hours, and that value is written back into
\* the item's due-date string as an ISO instant.
C24_OffsetExactlySeven ==
    NotionHandled =>
        /\ ntLast.call.properties.DueDate = ToISOString(BaseInstant - 7)
        /\ assignments[ntLast.idx].due_date = ToISOString(BaseInstant - 7)

NoFlagEnabled == ~exportTo.todoist /\ ~exportTo.notion

IsIsoInstant(text) == text # <<>> /\ Head(text) = "ISO"

InTodoist == pc \in {"td_entry", "td_fetch", "td_loop", "td_returned", "td_raised"}

\* C26: the task-list engine consumes the original free-text due date: while
\* it runs the database engine has not started and no item carries a date
\* rewritten by it, the item it handles and any dueString it sends are not
\* ISO instants, and with both engines enabled the database engine is entered
\* only from the return of the task-list engine, whose loop has then gone
\* through the whole list.
C26_TodoistSeesOriginalDueDate ==
    /\ [](/\ InTodoist =>
                /\ ntRun = 0
                /\ \A k \in 1..Len(assignments) : ~IsIsoInstant(assignments[k].due_date)
          /\ tdLast.idx # 0 =>
                /\ ~IsIsoInstant(tdLast.item.due_date)
                /\ (tdLast.call.op = "addTask" /\ Has(tdLast.call.data, "dueString"))
                      => ~IsIsoInstant(tdLast.call.data.dueString))
    /\ [][/\ (pc' = "nt_entry" /\ pc # "nt_entry" /\ exportTo.todoist) => pc = "td_returned"
          /\ (pc = "td_loop" /\ pc' = "td_returned") => tdIdx = Len(assignments)]_vars

C26_Witness ==
    /\ exportTo.todoist
    /\ exportTo.notion
    /\ config.todoist_api_key
    /\ run = 1
    /\ pc = "nt_loop"
    /\ ntLast.idx = 1
    /\ ~IsIsoInstant(ntLast.original.due_date)
    /\ IsIsoInstant(assignments[1].due_date)

----------------------------------------------------------------------------
(* Both engines: attempts and log events *)

\* the create and update calls an engine has issued: each one is counted
\* once, as a create, an update or an error
CallsOf(stats, service) ==
    stats[service].creates + stats[service].updates + stats[service].errors

\* C27: no retry: in one run each engine issues at most one create-or-update
\* call per item (never more calls than items handled so far, one call at
\* most per step, and only while moving on to the next item), and after a
\* failed call the loop goes on with a later item.
C27_NoRetry ==
    /\ [](/\ pc = "td_loop" => CallsOf(apiStats, "todoist") <= tdIdx
          /\ pc \in {"nt_loop", "nt_returned"} => CallsOf(apiStats, "notion") <= ntIdx
          /\ tdIdx <= Len(assignments) /\ ntIdx <= Len(assignments))
    /\ [][/\ CallsOf(apiStats', "todoist") <= CallsOf(apiStats, "todoist") + 1
          /\ CallsOf(apiStats', "notion") <= CallsOf(apiStats, "notion") + 1
          /\ CallsOf(apiStats', "todoist") > CallsOf(apiStats, "todoist") => tdIdx' = tdIdx + 1
          /\ CallsOf(apiStats', "notion") > CallsOf(apiStats, "notion") => ntIdx' = ntIdx + 1
          /\ (pc = "nt_loop" /\ pc' = "nt_loop" /\ ntLast.idx # 0 /\ ~ntLast.ok)
                => ntLast'.idx > ntLast.idx
          /\ (pc = "td_loop" /\ pc' = "td_loop" /\ tdLast.idx # 0 /\ ~tdLast.ok)
                => tdLast'.idx > tdLast.idx]_vars

C27_Witness ==
    /\ pc = "nt_loop"
    /\ ntIdx = 2
    /\ apiStats.notion.errors = 1
    /\ apiStats.notion.creates + apiStats.notion.updates = 1
    /\ ntLast.idx = 2
    /\ ntLast.ok

\* the log messages that state why an item is not in the scraper's result
DropReasons ==
    {"Failed to navigate to assignment page", "Failed to find content container",
     "Content verification failed", "Assignment processing failed"}

\* C28: no item is dropped silently: when the try block of an iteration ends
\* without the item in the result, a log event of that step names the item
\* and states the reason (an error, a warning or a skip entry).
C28_NoSilentDrop ==
    (BodyRan /\ scrapingStats.totalItems = 1 /\ assignments = <<>>) =>
        \E k \in 1..Len(emitted) :
            /\ emitted[k].idx = i + 1
            /\ emitted[k].msg \in DropReasons

----------------------------------------------------------------------------
(* The kind of an item *)

Kinds == {"assignment", "quiz", "discussion"}

\* C29: every item of the scraper's result has a kind among assignment,
\* quiz, discussion; the kind is set when the item is pushed, is the kind
\* chosen by classification, names the extractor whose fields the item
\* carries, and no later step changes it.
C29_KindSetOnce ==
    /\ [](\A k \in 1..Len(assignments) :
              /\ assignments[k].type \in Kinds
              /\ assignments[k].type = "quiz" <=> assignments[k].description = NULL)
    /\ [][/\ \A k \in 1..Len(assignments) :
                Len(assignments') >= k /\ assignments'[k] = assignments[k]
          /\ Len(assignments') > Len(assignments) =>
                /\ pc = "item_body"
                /\ Len(assignments') = Len(assignments) + 1
                /\ LET pg == item_links[i + 1].page
                       it == assignments'[Len(assignments')]
                       d  == ExtractorOf(FirstPassing(pg), pg)
                   IN /\ it.type = FirstPassing(pg)
                      /\ it.title = d.title
                      /\ it.due_date = d.due_date
                      /\ it.description = d.description]_vars

C29_Witness ==
    /\ pc = "scrape_returned"
    /\ Len(assignments) = 3
    /\ assignments[1].type = "discussion"
    /\ assignments[2].type = "assignment"
    /\ assignments[3].type = "quiz"
    /\ item_links[2].page = PgBoth

----------------------------------------------------------------------------
(* Properties of checkConfigExists, stated on SpecConfig *)

ConfigCallOver == pc \in {"config_returned", "config_raised"}

\* the paths the statement has examined: the custom path alone when one is
\* given, the standard locations otherwise
StatedPaths == IF customPath # NULL THEN <<customPath>> ELSE StandardPaths(home)

StatedHits == {k \in 1..Len(StatedPaths) : StatedPaths[k] \in existing}

\* C30: checkConfigExists returns {exists: true, path, format} for the first
\* existing path among the custom path (if given, the only one examined) or
\* the standard locations in priority order, with format "json" exactly when
\* the path ends in ".json" and "env" otherwise; when none exists it returns
\* {exists: false, path: null, format: null}.
C30_CheckConfigExists ==
    ConfigCallOver =>
        /\ pc = "config_returned"
        /\ IF StatedHits = {}
           THEN configStatus = [exists |-> FALSE, path |-> NULL, format |-> NULL]
           ELSE LET first == StatedPaths[CHOOSE k \in StatedHits : \A j \in StatedHits : k <= j]
                IN /\ configStatus.exists
                   /\ configStatus.path = first
                   /\ configStatus.format
                         = IF first[Len(first)] = ".json" THEN "json" ELSE "env"

----------------------------------------------------------------------------
(* Matching against the task-list snapshot, stated on SpecTodoist *)

\* the positions of the snapshot tasks whose content equals the item's title
\* or whose description contains the item's URL
DualHits(item, tasks) ==
    {k \in 1..Len(tasks) :
        \/ tasks[k].content = item.title
        \/ Includes(tasks[k].description, item.url)}

\* C31: an item is treated as previously exported exactly when some snapshot
\* task has content equal to its title or a description containing its URL,
\* and the task it is matched to is the first such task of the snapshot.
C31_DualStrategyMatch ==
    TodoistHandled =>
        LET hits == DualHits(tdLast.item, current_items)
        IN /\ (tdLast.prev # NoTask) <=> (hits # {})
           /\ hits # {} =>
                 /\ \E k \in hits : tdLast.prev = current_items[k]
                                    /\ \A j \in hits : k <= j

\* both snapshot tasks match the item, the first of them by its description
\* alone, and that first one is the match
C31_Witness ==
    /\ TodoistHandled
    /\ Len(current_items) = 2
    /\ DualHits(tdLast.item, current_items) = {1, 2}
    /\ current_items[1].content # tdLast.item.title
    /\ current_items[2].content = tdLast.item.title
    /\ tdLast.prev = current_items[1]

----------------------------------------------------------------------------
(* The per-item pages of the browser context, stated on SpecScrape *)

----------------------------------------------------------------------------
(* The snapshot is fetched once per run, stated on SpecTodoist *)

\* the second of two items with the same title, neither of them matched by
\* a task of the snapshot, has just been handled
SecondOfTwoUnmatched ==
    /\ TodoistHandled
    /\ tdLast.idx = 2
    /\ assignments[1].title = assignments[2].title
    /\ DualHits(assignments[1], current_items) = {}
    /\ DualHits(assignments[2], current_items) = {}

\* C33: the engine matches against the snapshot fetched at the start of its
\* run only: of two items with the same title that no snapshot task matches,
\* each gets a create call in the same run.
C33_SnapshotNeverRefreshed ==
    SecondOfTwoUnmatched =>
        /\ tdLast.call.op = "addTask"
        /\ tdLast.prev = NoTask
        /\ CallsOf(apiStats, "todoist") = 2

----------------------------------------------------------------------------
(* Counter accounting of exportToNotion, stated on SpecNotion *)

\* the loop of exportToNotion ran to its end: the initial query succeeded
NotionRunCompleted ==
    pc = "nt_returned" /\ Logged("info", "Notion export completed", 0)

\* C34: when the initial query succeeded, every item leads to exactly one
\* remote write attempt and moves exactly one of creates, updates and errors
\* by one, so that at the end of the run their sum has grown by the number
\* of items in the list.
C34_OneIncrementPerItem ==
    /\ pc = "nt_loop" => CallsOf(apiStats, "notion") = ntIdx
    /\ NotionJustHandled =>
          /\ ntLast.call.op \in {"pages.create", "pages.update"}
          /\ \E c \in Counters :
                OneCounterMoved(ntLast.before, apiStats, "notion", c)
    /\ NotionRunCompleted =>
          CallsOf(apiStats, "notion") = Len(assignments)

\* a run over two items has ended with one write accepted and one refused
C34_Witness ==
    /\ NotionRunCompleted
    /\ Len(assignments) = 2
    /\ apiStats.notion.errors = 1
    /\ apiStats.notion.creates + apiStats.notion.updates = 1

----------------------------------------------------------------------------
(* Counter accounting of the extraction loop, stated on SpecScrape *)

\* scrapeCanvas has returned or raised
ScrapeRunEnded == pc \in {"scrape_returned", "scrape_raised"}

\* C35: at the end of every scraping run the per-kind counters agree with
\* the result: assignments + quizzes + discussions equals processedItems,
\* and processedItems equals the length of the returned list.
C35_KindCountersAgree ==
    ScrapeRunEnded =>
        /\ scrapingStats.assignments + scrapingStats.quizzes
              + scrapingStats.discussions = scrapingStats.processedItems
        /\ scrapingStats.processedItems = Len(assignments)

----------------------------------------------------------------------------
(* Error accounting of scrapeCanvas, stated on SpecScrape *)

\* the fatal failures the statement names: initial navigation, login
\* controls, post-login anchor, dashboard click, planner marker
SingleFatalFailures == {"goto", "form", "dashboard", "click", "planner"}

\* C36: each failure event is counted exactly once in scrapingStats.errors:
\* a run that aborts on a single fatal failure ends with errors = 1, and
\* while the loop runs no more errors are counted than iterations started.
C36_FailureCountedOnce ==
    /\ (pc = "scrape_raised" /\ fatal \in SingleFatalFailures) =>
          scrapingStats.errors = 1
    /\ ScrapeInLoop => scrapingStats.errors <= Len(visited)

----------------------------------------------------------------------------
(* close() on the per-item page, stated on SpecItem *)

\* C37: each per-item page has close invoked exactly once: no path of the
\* loop closes the page both in its own branch and again in the cleanup
\* block.
C37_ClosedExactlyOnce ==
    (BetweenIterations /\ item_links[i].fault # "newPage") => closeCalls = 1

----------------------------------------------------------------------------
(* Frame of the engines on the item list, stated on Spec *)

InNotion == pc \in {"nt_entry", "nt_query", "nt_loop", "nt_returned"}

\* the item but for its due date
ButDueDate(item) == [f \in DOMAIN item \ {"due_date"} |-> item[f]]

\* C38: the task-list engine changes no field of any item, and the database
\* engine changes only the due date string: title, description, class_name,
\* url and type of every item, and the length and order of the list, are
\* left as they are by every step of both engines.
C38_EngineFrame ==
    [][/\ InTodoist => assignments' = assignments
       /\ InNotion =>
             /\ Len(assignments') = Len(assignments)
             /\ \A k \in 1..Len(assignments) :
                   ButDueDate(assignments'[k]) = ButDueDate(assignments[k])]_vars

\* both engines have gone through a list that ends with a quiz (an item
\* without description); the database engine has rewritten its due date
C38_Witness ==
    /\ pc = "nt_returned"
    /\ exportTo.todoist
    /\ config.todoist_api_key
    /\ run = 1
    /\ ntLast.idx # 0
    /\ ntLast.idx = Len(assignments)
    /\ ntLast.original.type = "quiz"
    /\ ntLast.item.due_date # ntLast.original.due_date
    /\ assignments[ntLast.idx] = ntLast.item

----------------------------------------------------------------------------
(* Enabled engines without credentials, stated on Spec *)

\* some export flag is set and every engine whose flag is set lacks its
\* credential
EnabledEnginesUnconfigured ==
    /\ ~NoFlagEnabled
    /\ exportTo.todoist => TodoistUnconfigured
    /\ exportTo.notion => NotionUnconfigured

====
